----------------------------- MODULE Board_proof -----------------------------
(***************************************************************************)
(* Proofs about what the board shows and what it runs on: the supply, the  *)
(* fuel gauge and its registers, the RGB LED and the display while pairing *)
(* (MCBoard), and at the end the swap of the display's buffers             *)
(* (FrameBuffer).  They hold for every board, fault count, restart count,  *)
(* text, animation, threshold and word, and for every number of rows,      *)
(* frames and presses.                                                     *)
(***************************************************************************)
EXTENDS Integers, FrameBuffer, MCBoard, TLAPS

-----------------------------------------------------------------------------
(* The supply: the script of the start and the handlers of sleep.            *)

(* The script, field by field. *)
LEMMA ScriptKinds ==
    /\ B!Script[1].kind = "init" /\ B!Script[2].kind = "init"
    /\ B!Script[3].kind = "init" /\ B!Script[4].kind = "check"
    /\ B!Script[5].kind = "check" /\ B!Script[6].kind = "check"
    /\ B!Script[7].kind = "check" /\ B!Script[8].kind = "check"
    /\ B!Script[9].kind = "check" /\ B!Script[10].kind = "revision"
    /\ B!Script[11].kind = "group" /\ B!Script[12].kind = "group"
    /\ B!Script[13].kind = "group" /\ B!Script[14].kind = "group"
    /\ B!Script[15].kind = "end" /\ B!Script[16].kind = "group"
    /\ B!Script[17].kind = "group" /\ B!Script[18].kind = "group"
    /\ B!Script[19].kind = "group" /\ B!Script[20].kind = "end"
    /\ B!Script[21].kind = "group" /\ B!Script[22].kind = "group"
    /\ B!Script[23].kind = "group" /\ B!Script[24].kind = "group"
    /\ B!Script[25].kind = "end" /\ B!Script[26].kind = "group"
    /\ B!Script[27].kind = "group" /\ B!Script[28].kind = "group"
    /\ B!Script[29].kind = "group" /\ B!Script[30].kind = "group"
    /\ B!Script[31].kind = "end"
BY DEF B!Script, B!Set, B!Call, B!Pin, B!VbusPin

LEMMA ScriptOps ==
    /\ B!Script[1].op = "reset" /\ B!Script[2].op = "mask"
    /\ B!Script[3].op = "identify" /\ B!Script[4].op = "set"
    /\ B!Script[5].op = "set" /\ B!Script[6].op = "set"
    /\ B!Script[7].op = "set" /\ B!Script[8].op = "set"
    /\ B!Script[9].op = "set" /\ B!Script[10].op = "revision"
    /\ B!Script[11].op = "set" /\ B!Script[12].op = "set"
    /\ B!Script[13].op = "set" /\ B!Script[14].op = "set"
    /\ B!Script[15].op = "end" /\ B!Script[16].op = "set"
    /\ B!Script[17].op = "set" /\ B!Script[18].op = "set"
    /\ B!Script[19].op = "set" /\ B!Script[20].op = "end"
    /\ B!Script[21].op = "set" /\ B!Script[22].op = "set"
    /\ B!Script[23].op = "set" /\ B!Script[24].op = "set"
    /\ B!Script[25].op = "end" /\ B!Script[26].op = "set"
    /\ B!Script[27].op = "set" /\ B!Script[28].op = "read"
    /\ B!Script[29].op = "read" /\ B!Script[30].op = "vbus"
    /\ B!Script[31].op = "end"
BY DEF B!Script, B!Set, B!Call, B!Pin, B!VbusPin

LEMMA ScriptRegisters ==
    /\ B!Script[4].reg = "dir" /\ B!Script[5].reg = "strap"
    /\ B!Script[6].reg = "dir" /\ B!Script[7].reg = "strap"
    /\ B!Script[8].reg = "dir" /\ B!Script[9].reg = "strap"
    /\ B!Script[11].reg = "dir" /\ B!Script[12].reg = "out"
    /\ B!Script[13].reg = "strap" /\ B!Script[14].reg = "hiz"
    /\ B!Script[16].reg = "dir" /\ B!Script[17].reg = "out"
    /\ B!Script[18].reg = "strap" /\ B!Script[19].reg = "hiz"
    /\ B!Script[21].reg = "dir" /\ B!Script[22].reg = "out"
    /\ B!Script[23].reg = "strap" /\ B!Script[24].reg = "hiz"
    /\ B!Script[26].reg = "dir" /\ B!Script[27].reg = "strap"
BY DEF B!Script, B!Set, B!Call, B!Pin, B!VbusPin

LEMMA ScriptPins ==
    /\ B!Script[4].pin = 2 /\ B!Script[5].pin = 2 /\ B!Script[6].pin = 3
    /\ B!Script[7].pin = 3 /\ B!Script[8].pin = 4 /\ B!Script[9].pin = 4
    /\ B!Script[11].pin = 0 /\ B!Script[12].pin = 0 /\ B!Script[13].pin = 0
    /\ B!Script[14].pin = 0 /\ B!Script[16].pin = 1 /\ B!Script[17].pin = 1
    /\ B!Script[18].pin = 1 /\ B!Script[19].pin = 1 /\ B!Script[21].pin = 5
    /\ B!Script[22].pin = 5 /\ B!Script[23].pin = 5 /\ B!Script[24].pin = 5
    /\ B!Script[26].pin = 6 /\ B!Script[27].pin = 6
BY DEF B!Script, B!Set, B!Call, B!Pin, B!VbusPin

LEMMA ScriptValues ==
    /\ B!Script[4].on = FALSE /\ B!Script[5].on = FALSE /\ B!Script[6].on = FALSE
    /\ B!Script[7].on = FALSE /\ B!Script[8].on = FALSE /\ B!Script[9].on = FALSE
    /\ B!Script[11].on = TRUE /\ B!Script[12].on = FALSE /\ B!Script[13].on = FALSE
    /\ B!Script[14].on = FALSE /\ B!Script[16].on = TRUE /\ B!Script[17].on = TRUE
    /\ B!Script[18].on = FALSE /\ B!Script[19].on = FALSE /\ B!Script[21].on = TRUE
    /\ B!Script[22].on = FALSE /\ B!Script[23].on = FALSE /\ B!Script[24].on = FALSE
    /\ B!Script[26].on = FALSE /\ B!Script[27].on = FALSE
BY DEF B!Script, B!Set, B!Call, B!Pin, B!VbusPin

LEMMA ScriptLength == Len(B!Script) = 31
BY DEF B!Script

(* Its calls by position. *)
LEMMA ScriptPositions ==
    ASSUME NEW i \in 1 .. 31
    PROVE  /\ B!Script[i].kind = "init" <=> i \in 1 .. 3
           /\ B!Script[i].kind = "revision" <=> i = 10
           /\ B!Script[i].kind = "end" <=> i \in {15, 20, 25, 31}
           /\ B!Script[i].op = "reset" <=> i = 1
           /\ B!Script[i].op = "mask" <=> i = 2
           /\ B!Script[i].op = "vbus" <=> i = 30
           /\ B!Script[i].op = "set" =>
                 i \in {4, 5, 6, 7, 8, 9, 11, 12, 13, 14, 16, 17, 18, 19, 21, 22, 23, 24, 26, 27}
<1>1. i \in {1, 2, 3, 4, 5, 6, 7, 8, 9, 10, 11, 12, 13, 14, 15, 16, 17, 18, 19, 20, 21, 22, 23, 24, 25, 26, 27, 28, 29, 30, 31}
  OBVIOUS
<1>. QED
  BY <1>1, ScriptKinds, ScriptOps

(* Where a pin of a register is set. *)
SetAt(r, p) ==
    IF r = "dir" THEN CASE p = 2 -> 4 [] p = 3 -> 6 [] p = 4 -> 8 [] p = 0 -> 11
                        [] p = 1 -> 16 [] p = 5 -> 21 [] OTHER -> 26
    ELSE IF r = "strap" THEN CASE p = 2 -> 5 [] p = 3 -> 7 [] p = 4 -> 9 [] p = 0 -> 13
                        [] p = 1 -> 18 [] p = 5 -> 23 [] OTHER -> 27
    ELSE IF r = "out" THEN CASE p = 0 -> 12 [] p = 1 -> 17 [] OTHER -> 22
    ELSE CASE p = 0 -> 14 [] p = 1 -> 19 [] OTHER -> 24

(* No pin of a register is set twice. *)
LEMMA ScriptSets ==
    ASSUME NEW i \in 1 .. 31, B!Script[i].op = "set"
    PROVE  /\ B!Script[i].reg \in {"dir", "strap", "out", "hiz"}
           /\ B!Script[i].pin \in B!Pins
           /\ B!Script[i].on \in BOOLEAN
           /\ i = SetAt(B!Script[i].reg, B!Script[i].pin)
<1>1. i \in {4, 5, 6, 7, 8, 9, 11, 12, 13, 14, 16, 17, 18, 19, 21, 22, 23, 24, 26, 27}
  BY ScriptPositions
<1>2. B!Script[i].reg \in {"dir", "strap", "out", "hiz"}
  BY <1>1, ScriptRegisters
<1>3. B!Script[i].pin \in B!Pins
  BY <1>1, ScriptPins DEF B!Pins
<1>4. B!Script[i].on \in BOOLEAN
  BY <1>1, ScriptValues
<1>5. i = SetAt(B!Script[i].reg, B!Script[i].pin)
  BY <1>1, ScriptRegisters, ScriptPins DEF SetAt
<1>. QED
  BY <1>2, <1>3, <1>4, <1>5

(* A call that succeeds has its effect and keeps that of the calls before. *)
LEMMA CallMade ==
    ASSUME exp \in [B!Registers -> SUBSET B!Pins],
           NEW n \in 1 .. 31, B!Script[n].kind # "end", B!Effect(B!Script[n]),
           \A i \in 1 .. n - 1 : B!Made(B!Script[i])
    PROVE  \A i \in 1 .. n : B!Made(B!Script[i])'
<1>. SUFFICES ASSUME NEW i \in 1 .. n PROVE B!Made(B!Script[i])'
  OBVIOUS
<1>. i \in 1 .. 31 /\ (i # n => B!Made(B!Script[i]))
  OBVIOUS
<1>1. CASE B!Script[n].op = "reset"
  BY <1>1, ScriptPositions DEF B!Made
<1>2. CASE B!Script[n].op = "mask"
  <2>1. exp' = [exp EXCEPT !["mask"] = B!Pins]
    BY <1>2 DEF B!Effect
  <2>. QED
    BY <1>2, <2>1, ScriptSets DEF B!Made, B!Registers
<1>3. CASE B!Script[n].op = "set"
  <2>1. B!PinSet(B!Script[n].reg, B!Script[n].pin, B!Script[n].on)
    BY <1>3 DEF B!Effect
  <2>2. CASE i = n
    BY <1>3, <2>1, <2>2, ScriptSets DEF B!Made, B!Registers, B!PinSet
  <2>3. CASE i # n /\ B!Script[i].op = "set"
    <3>1. B!Script[i].reg # B!Script[n].reg \/ B!Script[i].pin # B!Script[n].pin
      BY <1>3, <2>3, ScriptSets
    <3>. QED
      BY <1>3, <2>1, <2>3, <3>1, ScriptSets DEF B!Made, B!Registers, B!PinSet
  <2>4. CASE i # n /\ B!Script[i].op # "set"
    BY <1>3, <2>1, <2>4, ScriptSets DEF B!Made, B!Registers, B!PinSet
  <2>. QED
    BY <2>2, <2>3, <2>4
<1>4. CASE B!Script[n].op = "vbus"
  <2>1. PICK on \in BOOLEAN : B!PinSet("default", B!VbusPin, on)
    BY <1>4 DEF B!Effect
  <2>. QED
    BY <1>4, <2>1, ScriptSets DEF B!Made, B!Registers, B!PinSet
<1>5. CASE B!Script[n].op \notin {"reset", "mask", "set", "vbus"}
  <2>1. UNCHANGED exp
    BY <1>5 DEF B!Effect
  <2>. QED
    BY <1>5, <2>1 DEF B!Made
<1>. QED
  BY <1>1, <1>2, <1>3, <1>4, <1>5

(* A successful call keeps the registers' type. *)
LEMMA PinSetType ==
    ASSUME exp \in [B!Registers -> SUBSET B!Pins], NEW r \in B!Registers,
           NEW p \in B!Pins, NEW on \in BOOLEAN, B!PinSet(r, p, on)
    PROVE  exp' \in [B!Registers -> SUBSET B!Pins]
BY DEF B!PinSet

LEMMA CallType ==
    ASSUME exp \in [B!Registers -> SUBSET B!Pins],
           NEW n \in 1 .. 31, B!Effect(B!Script[n])
    PROVE  exp' \in [B!Registers -> SUBSET B!Pins]
<1>1. CASE B!Script[n].op = "reset"
  BY <1>1 DEF B!Effect, B!ResetRegisters, B!Registers, B!Pins
<1>2. CASE B!Script[n].op = "mask"
  BY <1>2 DEF B!Effect, B!Registers
<1>3. CASE B!Script[n].op = "set"
  BY <1>3, PinSetType, ScriptSets DEF B!Effect, B!Registers
<1>4. CASE B!Script[n].op = "vbus"
  BY <1>4, PinSetType DEF B!Effect, B!Registers, B!Pins, B!VbusPin
<1>5. CASE B!Script[n].op \notin {"reset", "mask", "set", "vbus"}
  BY <1>5 DEF B!Effect
<1>. QED
  BY <1>1, <1>2, <1>3, <1>4, <1>5

(* Once the outputs are configured, a rail's pin has the level written. *)
LEMMA ConfiguredOutput ==
    ASSUME NEW rail \in B!Rails,
           \A i \in 1 .. 31 :
               (B!Script[i].op = "set" /\ B!Script[i].reg = "out") \/ B!Made(B!Script[i])
    PROVE  B!Pin[rail] \in exp["dir"] \ exp["hiz"]
<1>1. B!Made(B!Script[11]) /\ B!Made(B!Script[14]) /\ B!Made(B!Script[16])
      /\ B!Made(B!Script[19]) /\ B!Made(B!Script[21]) /\ B!Made(B!Script[24])
  BY ScriptRegisters
<1>2. 0 \in exp["dir"] /\ 1 \in exp["dir"] /\ 5 \in exp["dir"]
  BY <1>1, ScriptOps, ScriptRegisters, ScriptPins, ScriptValues DEF B!Made
<1>4. 0 \notin exp["hiz"] /\ 1 \notin exp["hiz"] /\ 5 \notin exp["hiz"]
  BY <1>1, ScriptOps, ScriptRegisters, ScriptPins, ScriptValues DEF B!Made
<1>. QED
  BY <1>2, <1>4 DEF B!Pin, B!Rails

(* The configuration when the outputs are set and while their levels change. *)
Configured ==
    \A i \in 1 .. 31 :
        (B!Script[i].op = "set" /\ B!Script[i].reg = "out") \/ B!Made(B!Script[i])

LEMMA OutputKeepsConfiguration ==
    ASSUME exp \in [B!Registers -> SUBSET B!Pins], Configured,
           NEW p \in B!Pins, NEW on \in BOOLEAN, B!PinSet("out", p, on)
    PROVE  Configured'
<1>. SUFFICES ASSUME NEW i \in 1 .. 31,
                     ~(B!Script[i].op = "set" /\ B!Script[i].reg = "out")
              PROVE  B!Made(B!Script[i])'
  BY DEF Configured
<1>1. B!Made(B!Script[i])
  BY DEF Configured
<1>2. \A r \in B!Registers \ {"out"} : exp'[r] = exp[r]
  BY DEF B!PinSet, B!Registers
<1>. QED
  BY <1>1, <1>2, ScriptSets DEF B!Made, B!Registers

LEMMA ConfigurationIs ==
    ASSUME B!ConfigurationMade, B!Present, ~initFailed, phase \notin {"boot", "fallback"}
    PROVE  Configured
BY ScriptLength DEF B!ConfigurationMade, Configured

(* A rail's level decides whether it is on or off. *)
LEMMA RailIs ==
    ASSUME B!Present, NEW rail \in B!Rails, Configured
    PROVE  /\ B!Pin[rail] \in exp["dir"] \ exp["hiz"]
           /\ B!On(rail) <=> (B!Pin[rail] \in exp["out"] <=> rail = "rgb")
           /\ B!Off(rail) <=> (B!Pin[rail] \in exp["out"] <=> rail # "rgb")
<1>1. B!Pin[rail] \in exp["dir"] \ exp["hiz"]
  BY ConfiguredOutput DEF Configured
<1>. QED
  BY <1>1 DEF B!On, B!Off, B!High, B!Level

(* Writing one rail's level sets it and leaves the others alone. *)
LEMMA OutputSet ==
    ASSUME B!TypeOK, B!Present, UNCHANGED board, Configured, NEW rail \in B!Rails, NEW on \in BOOLEAN,
           B!PinSet("out", B!Pin[rail], B!High(rail, on))
    PROVE  /\ Configured'
           /\ IF on THEN B!On(rail)' ELSE B!Off(rail)'
           /\ \A r \in B!Rails \ {rail} : (B!On(r)' <=> B!On(r)) /\ (B!Off(r)' <=> B!Off(r))
<1>. B!Pin[rail] \in B!Pins
  BY DEF B!Pin, B!Pins, B!Rails
<1>. B!High(rail, on) \in BOOLEAN
  BY DEF B!High
<1>. exp \in [B!Registers -> SUBSET B!Pins]
  BY DEF B!TypeOK
<1>. B!Present'
  BY DEF B!Present
<1>1. Configured'
  BY OutputKeepsConfiguration
<1>2. B!Pin[rail] \in exp'["out"] <=> B!High(rail, on)
  BY DEF B!PinSet, B!Registers
<1>3. \A r \in B!Rails \ {rail} : B!Pin[r] \in exp'["out"] <=> B!Pin[r] \in exp["out"]
  <2>1. \A r \in B!Rails \ {rail} : B!Pin[r] # B!Pin[rail]
    BY DEF B!Pin, B!Rails
  <2>. QED
    BY <2>1 DEF B!PinSet, B!Registers
<1>4. ASSUME NEW r \in B!Rails
      PROVE  /\ B!On(r)' <=> (B!Pin[r] \in exp'["out"] <=> r = "rgb")
             /\ B!Off(r)' <=> (B!Pin[r] \in exp'["out"] <=> r # "rgb")
  <2>1. exp'["dir"] = exp["dir"] /\ exp'["hiz"] = exp["hiz"]
    BY DEF B!PinSet, B!Registers
  <2>2. B!Pin[r] \in exp'["dir"] \ exp'["hiz"]
    BY <2>1, RailIs
  <2>. QED
    BY <2>2 DEF B!On, B!Off, B!High, B!Level, B!Present
<1>5. IF on THEN B!On(rail)' ELSE B!Off(rail)'
  BY <1>2, <1>4 DEF B!High
<1>. QED
  BY <1>1, <1>3, <1>4, <1>5, RailIs

(* Setting one rail leaves the others alone and sets it, unless its write *)
(* fails. *)
LEMMA RailSet ==
    ASSUME B!TypeOK, NEW rail \in B!Rails, NEW on \in BOOLEAN, B!SetRail(rail, on),
           UNCHANGED board, revision = board, B!Present => Configured,
           rail \in B!Switched \ bad => B!On(rail) \/ B!Off(rail)
    PROVE  /\ B!Present => Configured'
           /\ rail \in (B!Switched \ bad)' => IF on THEN B!On(rail)' ELSE B!Off(rail)'
           /\ \A r \in (B!Switched \ bad)' \ {rail} :
                 r \in B!Switched \ bad /\ (B!On(r)' <=> B!On(r)) /\ (B!Off(r)' <=> B!Off(r))
<1>. B!Switched' = B!Switched /\ B!Switched \subseteq B!Rails
  BY DEF B!Switched, B!Rails
<1>1. CASE B!Present
  <2>. Configured /\ B!Present' /\ revision # B!V0
    BY <1>1 DEF B!Present
  <2>1. CASE B!PinSet("out", B!Pin[rail], B!High(rail, on)) /\ bad' = bad \ {rail}
    <3>1. /\ Configured'
          /\ IF on THEN B!On(rail)' ELSE B!Off(rail)'
          /\ \A r \in B!Rails \ {rail} : (B!On(r)' <=> B!On(r)) /\ (B!Off(r)' <=> B!Off(r))
      BY <1>1, <2>1, OutputSet
    <3>. QED
      BY <2>1, <3>1
  <2>2. CASE bad' = bad \cup {rail} /\ UNCHANGED <<exp, gpio>>
    <3>1. Configured'
      BY <2>2 DEF Configured, B!Made
    <3>2. \A r \in B!Rails : (B!On(r)' <=> B!On(r)) /\ (B!Off(r)' <=> B!Off(r))
      BY <2>2 DEF B!On, B!Off, B!Level, B!Present
    <3>. QED
      BY <2>2, <3>1, <3>2
  <2>. QED
    BY <2>1, <2>2 DEF B!SetRail
<1>2. CASE ~B!Present
  <2>. revision = B!V0 /\ board = B!V0 /\ ~B!Present'
    BY <1>2 DEF B!Present
  <2>1. /\ gpio' = IF rail = "power" \/ gpio[rail] = "float" THEN gpio
                   ELSE [gpio EXCEPT ![rail] = IF B!High(rail, on) THEN "high" ELSE "low"]
        /\ UNCHANGED bad
    BY DEF B!SetRail
  <2>2. B!Switched = {"amp", "rgb"}
    BY DEF B!Switched, B!Rails
  <2>3. \A r \in {"amp", "rgb"} :
           /\ B!On(r) <=> gpio[r] = IF r = "rgb" THEN "high" ELSE "low"
           /\ B!Off(r) <=> gpio[r] = IF r = "rgb" THEN "low" ELSE "high"
    BY <1>2 DEF B!On, B!Off, B!Level, B!High
  <2>4. \A r \in {"amp", "rgb"} :
           /\ B!On(r)' <=> gpio'[r] = IF r = "rgb" THEN "high" ELSE "low"
           /\ B!Off(r)' <=> gpio'[r] = IF r = "rgb" THEN "low" ELSE "high"
    BY <1>2 DEF B!On, B!Off, B!Level, B!High
  <2>5. gpio \in [{"amp", "rgb"} -> {"float", "low", "high"}]
    BY DEF B!TypeOK
  <2>6. ASSUME rail \in (B!Switched \ bad)'
        PROVE  IF on THEN B!On(rail)' ELSE B!Off(rail)'
    <3>1. rail \in {"amp", "rgb"} /\ gpio[rail] # "float"
      BY <2>1, <2>2, <2>3, <2>6
    <3>2. gpio'[rail] = IF B!High(rail, on) THEN "high" ELSE "low"
      BY <2>1, <2>5, <3>1
    <3>. QED
      BY <2>4, <3>1, <3>2 DEF B!High
  <2>7. ASSUME NEW r \in (B!Switched \ bad)' \ {rail}
        PROVE  r \in B!Switched \ bad /\ (B!On(r)' <=> B!On(r)) /\ (B!Off(r)' <=> B!Off(r))
    <3>1. r \in {"amp", "rgb"} /\ r \notin bad /\ gpio'[r] = gpio[r]
      BY <2>1, <2>2, <2>5, <2>7
    <3>. QED
      BY <2>2, <2>3, <2>4, <3>1
  <2>. QED
    BY <1>2, <2>6, <2>7
<1>. QED
  BY <1>1, <1>2

(* While the speaker starts, only the script's part of the invariant says *)
(* anything.                                                             *)
LEMMA NotYetRunning ==
    ASSUME phase' \in {"boot", "fallback", "start"}
    PROVE  B!RailsFollowHandlers' /\ B!BluetoothEnds'
BY DEF B!RailsFollowHandlers, B!BluetoothEnds

LEMMA NotYetConfigured ==
    ASSUME phase' = "boot" \/ initFailed'
    PROVE  B!ConfigurationMade'
BY DEF B!ConfigurationMade

LEMMA FaultCounted ==
    ASSUME faults \in 0 .. BoardFaults, B!TransferFails
    PROVE  faults' \in 0 .. BoardFaults
BY PartsAssumption DEF B!TransferFails, B!BoardAssumption

(* A restart finds the script at its beginning. *)
LEMMA RestartsAfresh ==
    ASSUME B!TypeOK, B!Restart, UNCHANGED <<board, exp>>, faults' \in 0 .. BoardFaults
    PROVE  B!IInv'
<1>1. B!TypeOK'
  BY DEF B!TypeOK, B!Restart, B!Rails
<1>2. phase' = "boot" /\ step' = 1 /\ failed' = FALSE
  BY DEF B!Restart
<1>3. B!ScriptFollowed'
  BY <1>2, ScriptLength DEF B!ScriptFollowed
<1>. QED
  BY <1>1, <1>2, <1>3, NotYetRunning, NotYetConfigured DEF B!IInv

LEMMA BootStep ==
    ASSUME B!IInv, B!Boot
    PROVE  B!IInv'
<1>. B!TypeOK /\ B!ScriptFollowed
  BY DEF B!IInv
<1>. phase = "boot" => /\ step \in 1 .. 32 /\ (failed => step \in 1 .. 31)
                      /\ (B!Present /\ ~failed => \A i \in 1 .. step - 1 : B!Made(B!Script[i]))
  BY ScriptLength DEF B!ScriptFollowed
<1>. board \in {B!V0, B!V2, B!V3}
  BY PartsAssumption DEF B!TypeOK, B!BoardAssumption
<1>1. CASE B!ConfigSucceeds
  <2>1. /\ phase = "boot" /\ B!Present /\ step \in 1 .. 31 /\ phase' = "boot"
        /\ step' = step + 1 /\ failed' = failed /\ UNCHANGED <<board, B!history, gpio, bt>>
        /\ B!Script[step].kind # "end" /\ B!Effect(B!Script[step])
        /\ revision' \in {board, revision}
    BY <1>1, ScriptLength DEF B!ConfigSucceeds
  <2>2. B!TypeOK'
    <3>1. exp' \in [B!Registers -> SUBSET B!Pins]
      BY <2>1, CallType DEF B!TypeOK
    <3>. QED
      BY <2>1, <3>1 DEF B!TypeOK, B!history, B!V0, B!V2, B!V3
  <2>3. B!ScriptFollowed'
    <3>1. step # 31
      BY <2>1, ScriptPositions
    <3>2. ~failed => \A i \in 1 .. step : B!Made(B!Script[i])'
      BY <2>1, CallMade DEF B!TypeOK
    <3>. QED
      BY <2>1, <3>1, <3>2, ScriptLength DEF B!ScriptFollowed, B!Present
  <2>. QED
    BY <2>1, <2>2, <2>3, NotYetRunning, NotYetConfigured DEF B!IInv
<1>2. CASE B!InitFails
  <2>1. B!TypeOK'
    BY <1>2, FaultCounted DEF B!InitFails, B!TypeOK
  <2>2. phase' = "fallback" /\ initFailed'
    BY <1>2 DEF B!InitFails
  <2>. QED
    BY <2>1, <2>2, NotYetRunning, NotYetConfigured DEF B!IInv, B!ScriptFollowed
<1>3. CASE B!CheckFails
  BY <1>3, RestartsAfresh, FaultCounted DEF B!CheckFails, B!TypeOK
<1>4. CASE B!RevisionFails
  <2>1. /\ phase = "boot" /\ phase' = "boot" /\ step = 10 /\ step' = 11 /\ UNCHANGED <<board, exp, failed>>
    BY <1>4, ScriptLength, ScriptPositions DEF B!RevisionFails
  <2>2. B!TypeOK'
    BY <1>4, FaultCounted DEF B!RevisionFails, B!TypeOK, B!V0, B!V2, B!V3
  <2>3. ~B!Script[10].op \in {"mask", "set"}
    BY ScriptPositions
  <2>4. B!ScriptFollowed'
    <3>1. B!Present /\ ~failed => \A i \in 1 .. 10 : B!Made(B!Script[i])
      BY <2>1, <2>3 DEF B!Made
    <3>. QED
      BY <2>1, <3>1, ScriptLength DEF B!ScriptFollowed, B!Made, B!Present
  <2>. QED
    BY <2>1, <2>2, <2>4, NotYetRunning, NotYetConfigured DEF B!IInv
<1>5. CASE B!GroupCallFails
  <2>1. phase = "boot" /\ phase' = "boot" /\ step \in 1 .. 30 /\ step' = step + 1 /\ failed' = TRUE
    BY <1>5, ScriptLength, ScriptKinds DEF B!GroupCallFails
  <2>2. B!TypeOK'
    BY <1>5, FaultCounted DEF B!GroupCallFails, B!TypeOK
  <2>3. B!ScriptFollowed'
    BY <2>1, ScriptLength DEF B!ScriptFollowed
  <2>. QED
    BY <2>1, <2>2, <2>3, NotYetRunning, NotYetConfigured DEF B!IInv
<1>6. CASE B!GroupEnds /\ failed
  BY <1>6, RestartsAfresh DEF B!GroupEnds, B!TypeOK
<1>7. CASE B!GroupEnds /\ ~failed
  <2>1. /\ phase = "boot" /\ phase' = "boot" /\ step \in 1 .. 31 /\ step' = step + 1
        /\ UNCHANGED <<board, exp, gpio, revision, failed, bt, B!history>>
        /\ B!Script[step].kind = "end"
    BY <1>7, ScriptLength DEF B!GroupEnds
  <2>2. B!TypeOK'
    BY <2>1 DEF B!TypeOK, B!history
  <2>3. B!ScriptFollowed'
    <3>1. step \in {15, 20, 25, 31} /\ B!Script[step].op = "end"
      BY <2>1, ScriptPositions, ScriptOps
    <3>2. B!Present => \A i \in 1 .. step : B!Made(B!Script[i])
      BY <1>7, <2>1, <3>1 DEF B!Made
    <3>. QED
      BY <1>7, <2>1, <3>2, ScriptLength DEF B!ScriptFollowed, B!Made, B!Present
  <2>. QED
    BY <2>1, <2>2, <2>3, NotYetRunning, NotYetConfigured DEF B!IInv
<1>8. CASE B!ConfigDone
  <2>1. /\ phase = "boot" /\ phase' = "start" /\ step = 32 /\ ~failed
        /\ UNCHANGED <<board, exp, gpio, revision, step, failed, bt, B!history>>
    BY <1>8, ScriptLength DEF B!ConfigDone
  <2>2. B!TypeOK'
    BY <2>1 DEF B!TypeOK, B!history
  <2>3. B!ScriptFollowed'
    BY <2>1 DEF B!ScriptFollowed
  <2>4. B!ConfigurationMade'
    BY <2>1, ScriptLength DEF B!ConfigurationMade, B!Made, B!Present
  <2>. QED
    BY <2>1, <2>2, <2>3, <2>4, NotYetRunning DEF B!IInv
<1>9. CASE B!Fallback
  <2>1. B!TypeOK'
    BY <1>9, FaultCounted DEF B!Fallback, B!TypeOK, B!V0, B!V2, B!V3
  <2>2. phase' = "start" /\ phase = "fallback" /\ UNCHANGED <<board, exp, initFailed>>
    BY <1>9 DEF B!Fallback
  <2>3. B!ConfigurationMade'
    BY <2>2, ScriptLength DEF B!IInv, B!ConfigurationMade, B!Made, B!Present
  <2>. QED
    BY <2>1, <2>2, <2>3, NotYetRunning DEF B!IInv, B!ScriptFollowed
<1>. QED
  BY <1>1, <1>2, <1>3, <1>4, <1>5, <1>6, <1>7, <1>8, <1>9 DEF B!Boot

LEMMA HandlersAre ==
    /\ Len(B!Handlers) = 5
    /\ B!Handlers[1] = "bt" /\ B!Handlers[2] = "amp" /\ B!Handlers[3] = "rgb"
    /\ B!Handlers[4] = "display" /\ B!Handlers[5] = "power"
BY DEF B!Handlers

LEMMA HandlerPositions ==
    ASSUME NEW i \in 1 .. 5
    PROVE  /\ B!Handlers[i] \in B!Rails => B!HandlerOf(B!Handlers[i]) = i
           /\ \A r \in B!Rails : B!HandlerOf(r) \in 2 .. 5
                                 /\ (B!HandlerOf(r) = i <=> r = B!Handlers[i])
<1>1. i = 1 \/ i = 2 \/ i = 3 \/ i = 4 \/ i = 5
  OBVIOUS
<1>. QED
  BY <1>1, HandlersAre DEF B!HandlerOf, B!Rails

(* What a rail is at each point. *)
RailRight(r) ==
    /\ \/ phase = "asleep"
       \/ phase = "sleep" /\ step > B!HandlerOf(r)
       \/ phase = "wake" /\ step <= B!HandlerOf(r)
       => B!Off(r)
    /\ \/ phase = "run"
       \/ phase = "sleep" /\ step <= B!HandlerOf(r)
       \/ phase = "wake" /\ step > B!HandlerOf(r)
       => B!On(r)

LEMMA RailsAre ==
    B!RailsFollowHandlers <=>
        (revision = board /\ (B!Present => ~initFailed) => \A r \in B!Switched \ bad : RailRight(r))
BY DEF B!RailsFollowHandlers, RailRight

(* A change of phase or handler that touches nothing else. *)
LEMMA PhaseChanges ==
    ASSUME B!IInv,
           UNCHANGED <<board, exp, gpio, revision, failed, faults, initFailed>>,
           bad' \in {bad, bad \cup {"bt"}},
           phase \notin {"boot", "fallback", "start"}, phase' \in {"run", "sleep", "asleep", "wake"},
           step' \in Nat, bt' \in BOOLEAN
    PROVE  B!TypeOK' /\ B!ScriptFollowed' /\ B!ConfigurationMade'
<1>1. B!TypeOK'
  BY DEF B!IInv, B!TypeOK
<1>2. B!ScriptFollowed'
  BY DEF B!ScriptFollowed
<1>3. B!ConfigurationMade'
  BY DEF B!IInv, B!ConfigurationMade, B!Made, B!Present
<1>. QED
  BY <1>1, <1>2, <1>3

LEMMA SameLevels ==
    ASSUME UNCHANGED <<board, exp, gpio, revision, initFailed>>
    PROVE  /\ \A r : (B!On(r)' <=> B!On(r)) /\ (B!Off(r)' <=> B!Off(r))
           /\ B!Switched' = B!Switched /\ B!Present' = B!Present
BY DEF B!On, B!Off, B!Level, B!Present, B!Switched

(* Bluetooth is no rail. *)
LEMMA BluetoothNoRail ==
    ASSUME bad' \in {bad, bad \cup {"bt"}}
    PROVE  \A r \in B!Switched : r \in bad' <=> r \in bad
BY DEF B!Switched, B!Rails

(* A teardown ends Bluetooth or is known to have failed. *)
LEMMA TeardownKnown ==
    ASSUME B!DeinitBluetooth
    PROVE  bt' \in BOOLEAN /\ bad' \in {bad, bad \cup {"bt"}} /\ (bt' => "bt" \in bad')
BY DEF B!DeinitBluetooth

(* A handler of a rail ran. *)
LEMMA RailHandled ==
    ASSUME B!IInv, NEW on \in BOOLEAN, step \in 1 .. 5, phase = IF on THEN "wake" ELSE "sleep",
           B!Handlers[step] \in B!Rails, B!SetRail(B!Handlers[step], on),
           step' = step + 1, UNCHANGED <<board, revision, phase, failed, initFailed, bt>>
    PROVE  B!TypeOK' /\ B!ScriptFollowed' /\ B!ConfigurationMade' /\ B!RailsFollowHandlers'
<1>0. PICK rail \in B!Rails : rail = B!Handlers[step]
  OBVIOUS
<1>. rail = B!Handlers[step] /\ B!SetRail(rail, on)
  BY <1>0
<1>. B!TypeOK /\ B!Present' = B!Present
  BY DEF B!IInv, B!Present
<1>1. B!TypeOK'
  <2>1. faults' \in 0 .. BoardFaults
    BY FaultCounted DEF B!SetRail, B!TypeOK
  <2>2. bad' \subseteq B!Rails \cup {"bt"}
    BY DEF B!SetRail, B!TypeOK
  <2>3. exp' \in [B!Registers -> SUBSET B!Pins]
    <3>1. B!Pin[rail] \in B!Pins
      BY DEF B!Pin, B!Pins, B!Rails
    <3>2. B!High(rail, on) \in BOOLEAN
      BY DEF B!High
    <3>. QED
      BY <3>1, <3>2, PinSetType DEF B!SetRail, B!TypeOK, B!Registers
  <2>4. gpio' \in [{"amp", "rgb"} -> {"float", "low", "high"}]
    BY DEF B!SetRail, B!TypeOK
  <2>. QED
    BY <2>1, <2>2, <2>3, <2>4 DEF B!TypeOK
<1>2. B!ScriptFollowed'
  BY DEF B!ScriptFollowed
<1>3. B!ConfigurationMade'
  <2>. SUFFICES ASSUME B!Present, ~initFailed
                PROVE  Configured'
    BY ScriptLength DEF B!ConfigurationMade, Configured
  <2>1. Configured
    BY ConfigurationIs DEF B!IInv
  <2>2. CASE B!PinSet("out", B!Pin[rail], B!High(rail, on))
    <3>1. UNCHANGED board
      OBVIOUS
    <3>. QED
      BY <2>1, <2>2, <3>1, OutputSet
  <2>3. CASE UNCHANGED exp
    BY <2>1, <2>3 DEF Configured, B!Made
  <2>. QED
    BY <2>2, <2>3 DEF B!SetRail
<1>4. B!RailsFollowHandlers'
  <2>. SUFFICES ASSUME revision = board, B!Present => ~initFailed,
                       NEW r \in (B!Switched \ bad)'
                PROVE  RailRight(r)'
    BY RailsAre DEF B!RailsFollowHandlers, RailRight
  <2>1. \A s \in B!Switched \ bad : RailRight(s)
    BY RailsAre DEF B!IInv
  <2>2. B!Switched \subseteq B!Rails /\ B!Switched' = B!Switched
    BY DEF B!Switched, B!Rails
  <2>3. B!Present => Configured
    BY ConfigurationIs DEF B!IInv
  <2>4. rail \in B!Switched \ bad => B!On(rail) \/ B!Off(rail)
    BY <2>1, HandlerPositions DEF RailRight
  <2>5. /\ rail \in (B!Switched \ bad)' => IF on THEN B!On(rail)' ELSE B!Off(rail)'
        /\ \A s \in (B!Switched \ bad)' \ {rail} :
              s \in B!Switched \ bad /\ (B!On(s)' <=> B!On(s)) /\ (B!Off(s)' <=> B!Off(s))
    <3>1. UNCHANGED board /\ revision = board
      OBVIOUS
    <3>. QED
      BY <2>3, <2>4, <3>1, RailSet
  <2>6. CASE r = rail
    <3>1. B!HandlerOf(r) = step
      BY <2>6, HandlerPositions
    <3>2. step' = step + 1 /\ step' > step /\ ~(step' <= step)
      OBVIOUS
    <3>3. phase' = IF on THEN "wake" ELSE "sleep"
      OBVIOUS
    <3>4. IF on THEN B!On(r)' ELSE B!Off(r)'
      BY <2>5, <2>6
    <3>5. step' > B!HandlerOf(r) /\ ~(step' <= B!HandlerOf(r))
      BY <3>1, <3>2
    <3>. QED
      BY <3>3, <3>4, <3>5 DEF RailRight, B!HandlerOf
  <2>7. CASE r # rail
    <3>1. r \in B!Switched \ bad /\ (B!On(r)' <=> B!On(r)) /\ (B!Off(r)' <=> B!Off(r))
      BY <2>5, <2>7
    <3>2. B!HandlerOf(r) \in 2 .. 5 /\ B!HandlerOf(r) # step
      BY <2>2, <2>7, <3>1, HandlerPositions
    <3>3. (step' > B!HandlerOf(r) <=> step > B!HandlerOf(r))
          /\ (step' <= B!HandlerOf(r) <=> step <= B!HandlerOf(r))
      BY <3>2
    <3>4. RailRight(r)
      BY <2>1, <3>1
    <3>. QED
      BY <3>1, <3>3, <3>4 DEF RailRight, B!HandlerOf
  <2>. QED
    BY <2>6, <2>7
<1>. QED
  BY <1>1, <1>2, <1>3, <1>4

LEMMA StartStep ==
    ASSUME B!IInv, B!Start
    PROVE  B!IInv'
<1>. /\ phase = "start" /\ phase' = "run" /\ gpio' = [amp |-> "low", rgb |-> "high"]
     /\ UNCHANGED <<board, revision, step, failed, initFailed>> /\ bt' \in BOOLEAN
     /\ B!TypeOK /\ B!ConfigurationMade
  BY DEF B!Start, B!IInv
<1>. board' = board /\ B!Present' = B!Present
  BY DEF B!Present
<1>1. CASE revision # B!V0 /\ B!Present /\ B!PinSet("out", 5, FALSE) /\ UNCHANGED <<faults, bad>>
  <2>1. B!TypeOK'
    <3>1. exp' \in [B!Registers -> SUBSET B!Pins]
      <4>1. 5 \in B!Pins /\ "out" \in B!Registers /\ exp \in [B!Registers -> SUBSET B!Pins]
        BY DEF B!TypeOK, B!Registers, B!Pins
      <4>. QED
        BY <1>1, <4>1, PinSetType
    <3>2. gpio' \in [{"amp", "rgb"} -> {"float", "low", "high"}]
      OBVIOUS
    <3>. QED
      BY <1>1, <3>1, <3>2 DEF B!TypeOK
  <2>2. ASSUME ~initFailed
        PROVE  Configured' /\ \A r \in B!Rails : B!On(r)'
    <3>1. \A i \in 1 .. 31 : B!Made(B!Script[i])
      BY <1>1, <2>2, ScriptLength DEF B!ConfigurationMade
    <3>2. Configured
      BY <3>1 DEF Configured
    <3>3. "power" \in B!Rails /\ B!Pin["power"] = 5 /\ B!High("power", TRUE) = FALSE
      BY DEF B!Rails, B!Pin, B!High
    <3>4. /\ Configured' /\ B!On("power")'
          /\ \A r \in B!Rails \ {"power"} : B!On(r)' <=> B!On(r)
      BY <1>1, <3>2, <3>3, OutputSet
    <3>5. B!On("amp") /\ B!On("rgb")
      <4>1. 0 \notin exp["out"] /\ 1 \in exp["out"]
        BY <3>1, ScriptOps, ScriptRegisters, ScriptPins, ScriptValues DEF B!Made
      <4>. QED
        BY <1>1, <3>2, <4>1, RailIs DEF B!Rails, B!Pin
    <3>. QED
      BY <3>4, <3>5 DEF B!Rails
  <2>3. B!ConfigurationMade'
    BY <2>2, ScriptLength DEF B!ConfigurationMade, Configured
  <2>4. B!RailsFollowHandlers'
    <3>1. B!Switched \subseteq B!Rails
      BY DEF B!Switched, B!Rails
    <3>2. B!Switched' = B!Switched
      BY DEF B!Switched
    <3>. QED
      BY <1>1, <2>2, <3>1, <3>2 DEF B!RailsFollowHandlers
  <2>. QED
    BY <2>1, <2>3, <2>4 DEF B!IInv, B!ScriptFollowed, B!BluetoothEnds
<1>2. CASE revision # B!V0 /\ B!TransferFails /\ bad' = {"power"} /\ UNCHANGED exp
  <2>1. B!TypeOK'
    <3>1. gpio' \in [{"amp", "rgb"} -> {"float", "low", "high"}]
      OBVIOUS
    <3>2. bad' \subseteq B!Rails \cup {"bt"}
      BY <1>2 DEF B!Rails
    <3>. QED
      BY <1>2, <3>1, <3>2, FaultCounted DEF B!TypeOK
  <2>2. B!ConfigurationMade'
    BY <1>2 DEF B!ConfigurationMade, B!Made
  <2>3. B!RailsFollowHandlers'
    <3>. SUFFICES ASSUME B!Present, ~initFailed, NEW r \in {"amp", "rgb"}
                  PROVE  B!On(r)'
      BY <1>2, PartsAssumption DEF B!RailsFollowHandlers, B!Switched, B!Rails, B!Present
    <3>1. \A i \in 1 .. 31 : B!Made(B!Script[i])
      BY <1>2, ScriptLength DEF B!ConfigurationMade
    <3>2. Configured
      BY <3>1 DEF Configured
    <3>3. 0 \notin exp["out"] /\ 1 \in exp["out"]
      BY <3>1, ScriptOps, ScriptRegisters, ScriptPins, ScriptValues DEF B!Made
    <3>4. B!On(r) /\ B!Pin[r] \in exp["dir"] \ exp["hiz"]
      BY <3>2, <3>3, RailIs DEF B!Rails, B!Pin
    <3>. QED
      BY <1>2, <3>4 DEF B!On, B!Level, B!Present
  <2>. QED
    BY <2>1, <2>2, <2>3 DEF B!IInv, B!ScriptFollowed, B!BluetoothEnds
<1>3. CASE revision = B!V0 /\ UNCHANGED <<exp, faults, bad>>
  <2>1. B!TypeOK'
    <3>1. gpio' \in [{"amp", "rgb"} -> {"float", "low", "high"}]
      OBVIOUS
    <3>. QED
      BY <1>3, <3>1 DEF B!TypeOK
  <2>2. B!ConfigurationMade'
    BY <1>3 DEF B!ConfigurationMade, B!Made
  <2>3. B!RailsFollowHandlers'
    <3>. SUFFICES ASSUME ~B!Present, NEW r \in {"amp", "rgb"}
                  PROVE  B!On(r)'
      BY <1>3 DEF B!RailsFollowHandlers, B!Switched, B!Rails, B!Present
    <3>. QED
      BY DEF B!On, B!Level, B!High
  <2>. QED
    BY <2>1, <2>2, <2>3 DEF B!IInv, B!ScriptFollowed, B!BluetoothEnds
<1>. QED
  BY <1>1, <1>2, <1>3 DEF B!Start, B!Pin

LEMMA PowerStep ==
    ASSUME B!IInv, B!Power
    PROVE  B!IInv'
<1>. USE DEF B!history
<1>. B!TypeOK /\ B!BluetoothEnds /\ step \in Nat
  BY DEF B!IInv, B!TypeOK
<1>1. CASE B!EnterSleep
  <2>1. /\ phase = "run" /\ phase' = "sleep" /\ step' = 1
        /\ UNCHANGED <<board, exp, gpio, revision, failed, bt, faults, initFailed, bad>>
    BY <1>1 DEF B!EnterSleep
  <2>2. B!RailsFollowHandlers'
    BY <2>1, SameLevels, HandlerPositions DEF B!IInv, B!RailsFollowHandlers, B!HandlerOf
  <2>. QED
    BY <2>1, <2>2, PhaseChanges, HandlersAre DEF B!IInv, B!BluetoothEnds, B!TypeOK
<1>2. CASE B!SleepHandler
  <2>1. phase = "sleep" /\ phase' = "sleep" /\ step \in 1 .. 5 /\ step' = step + 1
        /\ UNCHANGED <<board, revision, failed, initFailed>>
    BY <1>2, HandlersAre DEF B!SleepHandler, B!BluetoothEnds
  <2>2. CASE B!Handlers[step] \in B!Rails
    <3>1. step # 1
      BY <2>2, HandlersAre DEF B!Rails
    <3>2. UNCHANGED bt /\ B!SetRail(B!Handlers[step], FALSE)
      BY <1>2, <2>2 DEF B!SleepHandler
    <3>3. B!TypeOK' /\ B!ScriptFollowed' /\ B!ConfigurationMade' /\ B!RailsFollowHandlers'
      BY <2>1, <2>2, <3>2, RailHandled
    <3>4. "bt" \in bad => "bt" \in bad'
      BY <2>2, <3>2 DEF B!SetRail, B!Rails
    <3>. QED
      BY <2>1, <3>1, <3>2, <3>3, <3>4, HandlersAre DEF B!IInv, B!BluetoothEnds
  <2>3. CASE B!Handlers[step] \notin B!Rails
    <3>1. /\ UNCHANGED <<exp, gpio, faults>>
          /\ \/ B!Handlers[step] = "bt" /\ B!DeinitBluetooth
             \/ (B!Handlers[step] = "bt" => ~bt) /\ UNCHANGED <<bt, bad>>
      BY <1>2, <2>3 DEF B!SleepHandler
    <3>2. /\ bt' \in BOOLEAN /\ bad' \in {bad, bad \cup {"bt"}}
          /\ B!Handlers[step] = "bt" => (bt' => "bt" \in bad')
          /\ B!Handlers[step] # "bt" => UNCHANGED <<bt, bad>>
      BY <3>1, TeardownKnown DEF B!TypeOK
    <3>3. B!RailsFollowHandlers'
      <4>1. \A r \in B!Rails : B!HandlerOf(r) \in 2 .. 5 /\ B!HandlerOf(r) # step
        BY <2>1, <2>3, HandlerPositions
      <4>2. \A r \in B!Switched : r \in B!Rails
        BY DEF B!Switched
      <4>3. \A r \in B!Switched : r \in bad' <=> r \in bad
        BY <3>2, BluetoothNoRail
      <4>. QED
        BY <2>1, <3>1, <4>1, <4>2, <4>3, SameLevels DEF B!IInv, B!RailsFollowHandlers, B!HandlerOf
    <3>4. B!BluetoothEnds'
      <4>1. step' \in 1 .. 6 /\ phase' # "asleep"
        BY <2>1
      <4>2. CASE step = 1
        <5>1. B!Handlers[step] = "bt"
          BY <4>2, HandlersAre
        <5>. QED
          BY <3>2, <4>1, <5>1, HandlersAre DEF B!BluetoothEnds
      <4>3. CASE step # 1
        <5>1. B!Handlers[step] # "bt" /\ step > 1
          BY <2>1, <4>3, HandlersAre
        <5>2. UNCHANGED <<bt, bad>>
          BY <3>2, <5>1
        <5>. QED
          BY <2>1, <4>1, <5>1, <5>2, HandlersAre DEF B!BluetoothEnds
      <4>. QED
        BY <4>2, <4>3
    <3>. QED
      BY <2>1, <3>1, <3>2, <3>3, <3>4, PhaseChanges DEF B!IInv
  <2>. QED
    BY <2>2, <2>3
<1>9. CASE B!SleepHandlerWaits
  <2>1. UNCHANGED <<board, exp, gpio, revision, phase, step, failed, bt, faults, initFailed, bad>>
    BY <1>9 DEF B!SleepHandlerWaits, B!vars
  <2>2. phase = "sleep"
    BY <1>9 DEF B!SleepHandlerWaits
  <2>3. B!RailsFollowHandlers'
    BY <2>1, SameLevels DEF B!IInv, B!RailsFollowHandlers, B!HandlerOf
  <2>. QED
    BY <2>1, <2>2, <2>3, PhaseChanges DEF B!IInv, B!BluetoothEnds, B!TypeOK
<1>3. CASE B!LightSleep
  <2>1. /\ phase = "sleep" /\ phase' = "asleep" /\ step > 5
        /\ UNCHANGED <<board, exp, gpio, revision, step, failed, bt, faults, initFailed, bad>>
    BY <1>3, HandlersAre DEF B!LightSleep
  <2>2. B!RailsFollowHandlers'
    BY <2>1, SameLevels DEF B!IInv, B!RailsFollowHandlers, B!HandlerOf
  <2>. QED
    BY <2>1, <2>2, PhaseChanges DEF B!IInv, B!BluetoothEnds, B!TypeOK
<1>4. CASE B!Wake
  <2>1. /\ phase = "asleep" /\ phase' = "wake" /\ step' = 1
        /\ UNCHANGED <<board, exp, gpio, revision, failed, bt, faults, initFailed, bad>>
    BY <1>4 DEF B!Wake
  <2>2. B!RailsFollowHandlers'
    BY <2>1, SameLevels DEF B!IInv, B!RailsFollowHandlers, B!HandlerOf
  <2>. QED
    BY <2>1, <2>2, PhaseChanges, HandlersAre DEF B!IInv, B!BluetoothEnds, B!TypeOK
<1>5. CASE B!WakeHandler
  <2>1. phase = "wake" /\ phase' = "wake" /\ step \in 1 .. 5 /\ step' = step + 1
        /\ UNCHANGED <<board, revision, failed, initFailed, bt>>
    BY <1>5, HandlersAre DEF B!WakeHandler, B!BluetoothEnds
  <2>2. CASE B!Handlers[step] \in B!Rails
    <3>1. B!SetRail(B!Handlers[step], TRUE)
      BY <1>5, <2>2 DEF B!WakeHandler
    <3>2. B!TypeOK' /\ B!ScriptFollowed' /\ B!ConfigurationMade' /\ B!RailsFollowHandlers'
      BY <2>1, <2>2, <3>1, RailHandled
    <3>. QED
      BY <2>1, <3>2, HandlersAre DEF B!IInv, B!BluetoothEnds
  <2>3. CASE B!Handlers[step] \notin B!Rails
    <3>1. UNCHANGED <<exp, gpio, faults, bad>>
      BY <1>5, <2>3 DEF B!WakeHandler
    <3>2. B!RailsFollowHandlers'
      <4>1. \A r \in B!Rails : B!HandlerOf(r) \in 2 .. 5 /\ B!HandlerOf(r) # step
        BY <2>1, <2>3, HandlerPositions
      <4>2. \A r \in B!Switched : r \in B!Rails
        BY DEF B!Switched
      <4>. QED
        BY <2>1, <3>1, <4>1, <4>2, SameLevels DEF B!IInv, B!RailsFollowHandlers, B!HandlerOf
    <3>. QED
      BY <2>1, <3>1, <3>2, PhaseChanges, HandlersAre DEF B!IInv, B!BluetoothEnds, B!TypeOK
  <2>. QED
    BY <2>2, <2>3
<1>6. CASE B!Awake
  <2>1. /\ phase = "wake" /\ phase' = "run" /\ step > 5
        /\ UNCHANGED <<board, exp, gpio, revision, step, failed, bt, faults, initFailed, bad>>
    BY <1>6, HandlersAre DEF B!Awake
  <2>2. B!RailsFollowHandlers'
    BY <2>1, SameLevels DEF B!IInv, B!RailsFollowHandlers, B!HandlerOf
  <2>. QED
    BY <2>1, <2>2, PhaseChanges DEF B!IInv, B!BluetoothEnds, B!TypeOK
<1>7. CASE B!EnableBluetooth
  <2>1. /\ phase = "run" /\ phase' = "run" /\ bt' \in BOOLEAN
        /\ UNCHANGED <<board, exp, gpio, revision, step, failed, faults, initFailed, bad>>
    BY <1>7 DEF B!EnableBluetooth
  <2>2. B!RailsFollowHandlers'
    BY <2>1, SameLevels DEF B!IInv, B!RailsFollowHandlers
  <2>. QED
    BY <2>1, <2>2, PhaseChanges DEF B!IInv, B!BluetoothEnds, B!TypeOK
<1>8. CASE B!DisableBluetooth
  <2>1. /\ phase = "run" /\ phase' = "run"
        /\ UNCHANGED <<board, exp, gpio, revision, step, failed, faults, initFailed>>
    BY <1>8 DEF B!DisableBluetooth
  <2>2. bt' \in BOOLEAN /\ bad' \in {bad, bad \cup {"bt"}}
    BY <1>8, TeardownKnown DEF B!DisableBluetooth
  <2>3. B!RailsFollowHandlers'
    <3>1. \A r \in B!Switched : r \in bad' <=> r \in bad
      BY <2>2, BluetoothNoRail
    <3>. QED
      BY <2>1, <3>1, SameLevels DEF B!IInv, B!RailsFollowHandlers
  <2>. QED
    BY <2>1, <2>2, <2>3, PhaseChanges DEF B!IInv, B!BluetoothEnds, B!TypeOK
<1>. QED
  BY <1>1, <1>2, <1>3, <1>4, <1>5, <1>6, <1>7, <1>8, <1>9 DEF B!Power

(* The rails follow the speaker's sleep and wake, and the configuration of *)
(* the expander is complete when it starts: RailsRight of every run, for   *)
(* every set of boards and every number of failed transfers.  The script   *)
(* sets each pin once, so that what it has written stays written; after it *)
(* only outputs change, one rail at a time, in the handlers' order.        *)
THEOREM RailsFollow == MCSpec => []RailsRight
<1>. DEFINE Inv == part = "power" => B!IInv
<1>1. MCInit => Inv
  <2>. SUFFICES ASSUME MCInit PROVE B!IInv
    OBVIOUS
  <2>1. B!Init
    BY DEF MCInit
  <2>2. B!TypeOK
    <3>1. exp \in [B!Registers -> SUBSET B!Pins]
      BY <2>1 DEF B!Init, B!ResetRegisters, B!Registers, B!Pins
    <3>2. gpio \in [{"amp", "rgb"} -> {"float", "low", "high"}]
      BY <2>1 DEF B!Init
    <3>3. 0 \in 0 .. BoardFaults
      BY PartsAssumption DEF B!BoardAssumption
    <3>. QED
      BY <2>1, <3>1, <3>2, <3>3 DEF B!Init, B!TypeOK
  <2>3. B!ScriptFollowed
    BY <2>1, ScriptLength DEF B!Init, B!ScriptFollowed
  <2>. QED
    BY <2>1, <2>2, <2>3
       DEF B!Init, B!IInv, B!ConfigurationMade, B!RailsFollowHandlers, B!BluetoothEnds
<1>2. Inv /\ [MCNext]_<<part, boardVars>> => Inv'
  <2>. SUFFICES ASSUME B!IInv, part = "power", [MCNext]_<<part, boardVars>>
                PROVE  B!IInv'
    BY DEF MCNext
  <2>1. CASE B!Next
    BY <2>1, BootStep, StartStep, PowerStep DEF B!Next
  <2>2. CASE UNCHANGED powerVars
    <3>1. UNCHANGED <<board, exp, gpio, revision, phase, step, failed, bt, faults, initFailed, bad>>
      BY <2>2 DEF powerVars
    <3>2. B!TypeOK'
      BY <3>1 DEF B!IInv, B!TypeOK
    <3>3. B!ScriptFollowed' /\ B!ConfigurationMade'
      BY <3>1 DEF B!IInv, B!ScriptFollowed, B!ConfigurationMade, B!Made, B!Present
    <3>4. B!RailsFollowHandlers'
      <4>1. /\ \A r : (B!On(r)' <=> B!On(r)) /\ (B!Off(r)' <=> B!Off(r))
            /\ B!Switched' = B!Switched /\ (B!Present' <=> B!Present)
        BY <3>1, SameLevels
      <4>2. B!RailsFollowHandlers
        BY DEF B!IInv
      <4>. QED
        BY <3>1, <4>1, <4>2 DEF B!RailsFollowHandlers, B!HandlerOf
    <3>5. B!BluetoothEnds'
      BY <3>1 DEF B!IInv, B!BluetoothEnds
    <3>. QED
      BY <3>2, <3>3, <3>4, <3>5 DEF B!IInv
  <2>. QED
    BY <2>1, <2>2 DEF MCNext, boardVars
<1>3. Inv => RailsRight
  <2>. SUFFICES ASSUME B!IInv PROVE B!TypeOK /\ B!RailsFollowPower /\ B!NoHalfConfiguration
    BY DEF RailsRight
  <2>1. B!RailsFollowPower
    BY DEF B!IInv, B!RailsFollowPower, B!RailsFollowHandlers, B!BluetoothEnds
  <2>2. B!NoHalfConfiguration
    <3>. SUFFICES ASSUME phase \notin {"boot", "fallback"}, B!Present, ~initFailed
                  PROVE  /\ {B!Pin[rail] : rail \in B!Rails}
                              \subseteq exp["dir"] \ (exp["hiz"] \cup exp["strap"])
                         /\ (B!VidPins \cup {B!VbusPin}) \cap (exp["dir"] \cup exp["strap"]) = {}
                         /\ exp["mask"] = B!Pins
      BY DEF B!NoHalfConfiguration
    <3>1. Configured
      BY ConfigurationIs DEF B!IInv
    <3>2. \A i \in {2} \cup 4 .. 9 \cup {11, 13, 14, 16, 18, 19, 21, 23, 24, 26, 27} :
             B!Made(B!Script[i])
      BY <3>1, ScriptRegisters, ScriptOps DEF Configured
    <3>3. /\ 0 \in exp["dir"] /\ 1 \in exp["dir"] /\ 5 \in exp["dir"]
          /\ 2 \notin exp["dir"] /\ 3 \notin exp["dir"] /\ 4 \notin exp["dir"]
          /\ 6 \notin exp["dir"]
      BY <3>2, ScriptOps, ScriptRegisters, ScriptPins, ScriptValues DEF B!Made
    <3>4. /\ 0 \notin exp["strap"] /\ 1 \notin exp["strap"] /\ 5 \notin exp["strap"]
          /\ 2 \notin exp["strap"] /\ 3 \notin exp["strap"] /\ 4 \notin exp["strap"]
          /\ 6 \notin exp["strap"]
      BY <3>2, ScriptOps, ScriptRegisters, ScriptPins, ScriptValues DEF B!Made
    <3>5. 0 \notin exp["hiz"] /\ 1 \notin exp["hiz"] /\ 5 \notin exp["hiz"]
      BY <3>2, ScriptOps, ScriptRegisters, ScriptPins, ScriptValues DEF B!Made
    <3>6. exp["mask"] = B!Pins
      BY <3>2, ScriptOps DEF B!Made
    <3>. QED
      BY <3>3, <3>4, <3>5, <3>6 DEF B!Pin, B!Rails, B!VidPins, B!VbusPin
  <2>. QED
    BY <2>1, <2>2 DEF B!IInv
<1>. QED
  BY <1>1, <1>2, <1>3, PTL DEF MCSpec

-----------------------------------------------------------------------------
(* The fuel gauge's alerts.                                                  *)

LEMMA SetupIs ==
    /\ Len(G!Setup) = 8
    /\ G!Setup[1] = "clear" /\ G!Setup[2] = "install" /\ G!Setup[3] = "enable"
    /\ G!Setup[4] = "threshold" /\ G!Setup[5] = "create" /\ G!Setup[6] = "SOC_CHANGE"
    /\ G!Setup[7] = "SOC_LOW" /\ G!Setup[8] = "enable"
BY DEF G!Setup

LEMMA SetupPositions ==
    ASSUME setup \in 1 .. 9
    PROVE  /\ G!At("clear") <=> setup = 1
           /\ G!At("install") <=> setup = 2
           /\ G!At("enable") <=> setup \in {3, 8}
           /\ G!At("threshold") <=> setup = 4
           /\ G!At("create") <=> setup = 5
           /\ G!At("SOC_CHANGE") <=> setup = 6
           /\ G!At("SOC_LOW") <=> setup = 7
<1>1. setup \in {1, 2, 3, 4, 5, 6, 7, 8} \/ setup = 9
  OBVIOUS
<1>. QED
  BY <1>1, SetupIs DEF G!At

(* An edge leaves the semaphore or nobody who will hear it. *)
LEMMA EdgeHeard ==
    ASSUME G!TypeOK, NEW on \in BOOLEAN, G!SetAlrt(on)
    PROVE  /\ alrt' \in BOOLEAN /\ sem' \in BOOLEAN /\ deaf' \in BOOLEAN
           /\ alrt' <=> on
           /\ sem => sem'
           /\ on => sem' \/ deaf' \/ alrt
           /\ on /\ isr /\ ~alrt => sem'
           /\ on /\ deaf => deaf'
BY DEF G!SetAlrt, G!TypeOK

LEMMA GaugeMainStep ==
    ASSUME G!IInv, G!Main
    PROVE  G!IInv'
<1>. G!TypeOK /\ setup \in 1 .. 9
  BY SetupIs DEF G!IInv, G!TypeOK
<1>1. CASE G!MainReadConfig
  <2>1. /\ setup \in {1, 3, 4, 8} /\ mcfg' = G!Read
        /\ UNCHANGED <<flags, alrt, alsc, isr, sem, cbs, setup, task, status, tcfg, calls,
                       bus_faults, restarts, told, deaf, missed>>
    BY <1>1, SetupPositions DEF G!MainReadConfig, G!chip, G!alert, G!history
  <2>2. mcfg' \in Seq(G!Config) /\ Len(mcfg') = 1 /\ mcfg'[1] = [alrt |-> alrt, alsc |-> alsc]
    BY <2>1 DEF G!Read, G!Config, G!TypeOK
  <2>3. G!TypeOK'
    BY <2>1, <2>2 DEF G!TypeOK
  <2>4. G!SetupInOrder'
    BY <2>1, <2>2, SetupIs DEF G!IInv, G!SetupInOrder
  <2>. QED
    BY <2>1, <2>3, <2>4 DEF G!IInv, G!LowPinSeen, G!Clearing, G!FlagsUnderWay
<1>2. CASE G!MainWriteConfig
  <2>1. /\ mcfg # G!Unread /\ setup \in 1 .. 8 /\ setup' = setup + 1 /\ mcfg' = G!Unread
        /\ UNCHANGED <<flags, isr, cbs, task, status, tcfg, calls,
                       bus_faults, restarts, told, missed>>
    BY <1>2, SetupPositions, SetupIs
       DEF G!MainWriteConfig, G!Done, G!alert, G!IInv, G!SetupInOrder
  <2>8. /\ setup \in {3, 8} => alsc' = TRUE
        /\ setup \notin {3, 8} => alsc' = mcfg[1].alsc
    BY <1>2, SetupPositions DEF G!MainWriteConfig
  <2>2. mcfg[1] \in G!Config
    BY <2>1 DEF G!TypeOK, G!Unread
  <2>3. PICK on \in BOOLEAN : G!SetAlrt(on)
    BY <1>2, <2>2 DEF G!MainWriteConfig, G!Config
  <2>4. G!TypeOK'
    <3>1. alsc' \in BOOLEAN
      BY <2>2, <2>8 DEF G!Config
    <3>2. mcfg' \in Seq(G!Config) /\ Len(mcfg') <= 1
      BY <2>1 DEF G!Unread
    <3>3. setup' \in 1 .. Len(G!Setup) + 1
      BY <2>1, SetupIs
    <3>. QED
      BY <2>1, <2>3, <3>1, <3>2, <3>3, EdgeHeard DEF G!TypeOK
  <2>5. G!LowPinSeen'
    BY <2>1, <2>3, EdgeHeard DEF G!IInv, G!LowPinSeen, G!Clearing
  <2>6. G!SetupInOrder'
    <3>1. setup' >= 4 => alsc'
      <4>1. CASE setup = 3
        BY <2>8, <4>1
      <4>2. CASE setup # 3
        BY <2>1, <2>8, <4>2 DEF G!IInv, G!SetupInOrder
      <4>. QED
        BY <4>1, <4>2
    <3>2. setup' >= 4 /\ task' = "write" => tcfg'.alsc
      <4>1. CASE setup = 3
        BY <2>1, <4>1 DEF G!IInv, G!SetupInOrder
      <4>2. CASE setup # 3
        BY <2>1, <4>2 DEF G!IInv, G!SetupInOrder
      <4>. QED
        BY <4>1, <4>2
    <3>3. setup' <= 5 => task' = "none"
      BY <2>1 DEF G!IInv, G!SetupInOrder
    <3>. QED
      BY <2>1, <3>1, <3>2, <3>3 DEF G!SetupInOrder, G!Unread
  <2>7. G!FlagsUnderWay'
    BY <2>1, <2>3, EdgeHeard DEF G!IInv, G!FlagsUnderWay
  <2>. QED
    BY <2>4, <2>5, <2>6, <2>7 DEF G!IInv
<1>3. CASE G!InstallIsr
  <2>1. /\ setup = 2 /\ setup' = 3 /\ mcfg' = G!Unread /\ isr' = TRUE
        /\ UNCHANGED <<flags, alrt, alsc, sem, cbs, task, status, tcfg, calls,
                       bus_faults, restarts, told, deaf, missed>>
    BY <1>3, SetupPositions DEF G!InstallIsr, G!Done, G!chip, G!alert, G!history
  <2>2. G!TypeOK'
    BY <2>1, SetupIs DEF G!TypeOK, G!Unread
  <2>. QED
    BY <2>1, <2>2
       DEF G!IInv, G!LowPinSeen, G!Clearing, G!FlagsUnderWay, G!SetupInOrder
<1>4. CASE G!CreateTask
  <2>1. /\ setup = 5 /\ setup' = 6 /\ mcfg' = G!Unread /\ task' = "take"
        /\ UNCHANGED <<flags, alrt, alsc, isr, sem, cbs, status, tcfg, calls,
                       bus_faults, restarts, told, deaf, missed>>
    BY <1>4, SetupPositions DEF G!CreateTask, G!Done, G!chip, G!history
  <2>2. G!TypeOK'
    BY <2>1, SetupIs DEF G!TypeOK, G!Unread
  <2>. QED
    BY <2>1, <2>2
       DEF G!IInv, G!LowPinSeen, G!Clearing, G!FlagsUnderWay, G!SetupInOrder
<1>5. ASSUME NEW f \in G!Flags, G!RegisterCallback(f)
      PROVE  G!IInv'
  <2>1. /\ setup \in {6, 7} /\ setup' = setup + 1 /\ mcfg' = G!Unread /\ cbs' = cbs \cup {f}
        /\ UNCHANGED <<flags, alrt, alsc, isr, sem, task, status, tcfg, calls,
                       bus_faults, restarts, told, deaf, missed>>
    BY <1>5, SetupPositions
       DEF G!RegisterCallback, G!Flags, G!Done, G!chip, G!alert, G!history
  <2>2. G!TypeOK'
    BY <2>1, SetupIs DEF G!TypeOK, G!Unread
  <2>. QED
    BY <2>1, <2>2
       DEF G!IInv, G!LowPinSeen, G!Clearing, G!FlagsUnderWay, G!SetupInOrder
<1>. QED
  BY <1>1, <1>2, <1>3, <1>4, <1>5 DEF G!Main

LEMMA GaugeChipStep ==
    ASSUME G!IInv, NEW f \in G!Flags, G!Raise(f)
    PROVE  G!IInv'
<1>. G!TypeOK /\ G!SetAlrt(TRUE)
  BY DEF G!IInv, G!Raise
<1>1. /\ flags' = flags \cup {f}
      /\ missed' = IF G!Overlooked(f) THEN missed \cup {f} ELSE missed
      /\ UNCHANGED <<alsc, isr, cbs, setup, mcfg, task, status, tcfg, calls,
                     bus_faults, restarts, told>>
  BY DEF G!Raise, G!main, G!alert
<1>2. G!TypeOK'
  BY <1>1, EdgeHeard DEF G!TypeOK
<1>3. G!LowPinSeen'
  BY <1>1, EdgeHeard DEF G!IInv, G!LowPinSeen, G!Clearing
<1>4. G!SetupInOrder'
  BY <1>1 DEF G!IInv, G!SetupInOrder
<1>5. G!FlagsUnderWay'
  <2>1. sem' \/ G!Overlooked(f) \/ task = "status"
            \/ (task \in {"read", "write"} /\ f \in status)
    <3>1. (sem => sem') /\ (isr /\ ~alrt => sem')
      BY EdgeHeard
    <3>2. alrt => sem \/ G!Clearing \/ deaf
      BY DEF G!IInv, G!LowPinSeen
    <3>3. ~G!Overlooked(f) => isr /\ ~(alrt /\ deaf)
                             /\ ~(alrt /\ f \notin status /\ task \in {"read", "write"})
      BY DEF G!Overlooked
    <3>. QED
      BY <3>1, <3>2, <3>3 DEF G!Clearing
  <2>. QED
    BY <1>1, <2>1, EdgeHeard DEF G!IInv, G!FlagsUnderWay
<1>. QED
  BY <1>2, <1>3, <1>4, <1>5 DEF G!IInv

LEMMA GaugeRestartStep ==
    ASSUME G!IInv, G!SetupFails
    PROVE  G!IInv'
<1>. G!TypeOK
  BY DEF G!IInv
<1>1. G!TypeOK'
  <2>1. bus_faults' \in 0 .. GaugeFaults
    BY PartsAssumption DEF G!SetupFails, G!Fault, G!TypeOK, G!GaugeAssumption
  <2>2. restarts' \in 0 .. MaxRestarts
    BY PartsAssumption DEF G!SetupFails, G!TypeOK, G!GaugeAssumption
  <2>3. tcfg' \in G!Config
    BY DEF G!SetupFails, G!Config
  <2>. QED
    <3>1. mcfg' \in Seq(G!Config) /\ Len(mcfg') <= 1
      BY DEF G!SetupFails, G!Unread
    <3>2. setup' \in 1 .. Len(G!Setup) + 1
      BY SetupIs DEF G!SetupFails
    <3>. QED
      BY <2>1, <2>2, <2>3, <3>1, <3>2 DEF G!SetupFails, G!TypeOK, G!chip
<1>. QED
  BY <1>1
     DEF G!SetupFails, G!chip, G!IInv, G!LowPinSeen, G!Clearing, G!FlagsUnderWay, G!SetupInOrder

LEMMA GaugeTaskStep ==
    ASSUME G!IInv, G!AlertTask \/ G!StatusFails \/ G!ClearFails
    PROVE  G!IInv'
<1>. G!TypeOK
  BY DEF G!IInv
<1>. USE DEF G!chip, G!main, G!history
<1>0. G!Fault => bus_faults' \in 0 .. GaugeFaults
  BY PartsAssumption DEF G!Fault, G!TypeOK, G!GaugeAssumption
<1>1. CASE G!Take
  <2>1. G!TypeOK'
    BY <1>1 DEF G!Take, G!TypeOK
  <2>. QED
    BY <1>1, <2>1
       DEF G!Take, G!IInv, G!LowPinSeen, G!Clearing, G!FlagsUnderWay, G!SetupInOrder
<1>2. CASE G!ReadStatus
  <2>1. G!TypeOK'
    BY <1>2 DEF G!ReadStatus, G!TypeOK
  <2>. QED
    BY <1>2, <2>1
       DEF G!ReadStatus, G!IInv, G!LowPinSeen, G!Clearing, G!FlagsUnderWay, G!SetupInOrder
<1>3. CASE G!ReadConfig
  <2>1. G!TypeOK'
    BY <1>3 DEF G!ReadConfig, G!TypeOK, G!Config
  <2>. QED
    BY <1>3, <2>1
       DEF G!ReadConfig, G!IInv, G!LowPinSeen, G!Clearing, G!FlagsUnderWay, G!SetupInOrder
<1>4. CASE G!ClearAlert
  <2>1. G!SetAlrt(FALSE) /\ task = "write" /\ task' = "lock" /\ alsc' = tcfg.alsc
        /\ UNCHANGED <<flags, isr, cbs, setup, mcfg, status, tcfg, calls, bus_faults, restarts,
                       told, missed>>
    BY <1>4 DEF G!ClearAlert
  <2>2. alsc' \in BOOLEAN
    BY <2>1 DEF G!TypeOK, G!Config
  <2>3. G!TypeOK'
    BY <2>1, <2>2, EdgeHeard DEF G!TypeOK
  <2>4. ~alrt'
    BY <2>1, EdgeHeard
  <2>5. G!FlagsUnderWay'
    BY <2>1, EdgeHeard DEF G!IInv, G!FlagsUnderWay
  <2>. QED
    BY <2>1, <2>3, <2>4, <2>5 DEF G!IInv, G!LowPinSeen, G!SetupInOrder
<1>5. CASE G!Lock
  <2>1. G!TypeOK'
    BY <1>5 DEF G!Lock, G!TypeOK
  <2>. QED
    BY <1>5, <2>1
       DEF G!Lock, G!IInv, G!LowPinSeen, G!Clearing, G!FlagsUnderWay, G!SetupInOrder
<1>6. CASE G!CallBack
  <2>1. G!TypeOK'
    BY <1>6 DEF G!CallBack, G!TypeOK
  <2>. QED
    BY <1>6, <2>1
       DEF G!CallBack, G!IInv, G!LowPinSeen, G!Clearing, G!FlagsUnderWay, G!SetupInOrder
<1>7. CASE G!Unlock
  <2>1. G!TypeOK'
    BY <1>7 DEF G!Unlock, G!TypeOK
  <2>. QED
    BY <1>7, <2>1
       DEF G!Unlock, G!IInv, G!LowPinSeen, G!Clearing, G!FlagsUnderWay, G!SetupInOrder
<1>8. CASE G!StatusFails
  <2>1. G!TypeOK'
    BY <1>0, <1>8 DEF G!StatusFails, G!TypeOK
  <2>. QED
    BY <1>8, <2>1
       DEF G!StatusFails, G!IInv, G!LowPinSeen, G!Clearing, G!FlagsUnderWay, G!SetupInOrder
<1>9. CASE G!ClearFails
  <2>1. G!TypeOK'
    BY <1>0, <1>9 DEF G!ClearFails, G!TypeOK
  <2>. QED
    BY <1>9, <2>1
       DEF G!ClearFails, G!IInv, G!LowPinSeen, G!Clearing, G!FlagsUnderWay, G!SetupInOrder
<1>. QED
  BY <1>1, <1>2, <1>3, <1>4, <1>5, <1>6, <1>7, <1>8, <1>9 DEF G!AlertTask

(* No low pin and no flag is forgotten: AlertsHeard of every run, for every *)
(* number of failed transfers and of restarts.  A flag is under way by the  *)
(* semaphore, the task's read of STATUS or its list of callbacks; and from  *)
(* the setup's third step on every copy of CONFIG has the alerts of SOC     *)
(* changes on.                                                              *)
THEOREM AlertsReachSomebody == MCSpec => []AlertsHeard
<1>. DEFINE Inv == part = "gauge" => G!IInv
<1>1. MCInit => Inv
  <2>. SUFFICES ASSUME MCInit PROVE G!IInv
    OBVIOUS
  <2>1. G!Init
    BY DEF MCInit
  <2>2. G!TypeOK
    <3>1. tcfg \in G!Config /\ mcfg \in Seq(G!Config) /\ Len(mcfg) <= 1
      BY <2>1 DEF G!Init, G!Config, G!Unread
    <3>2. setup \in 1 .. Len(G!Setup) + 1
      BY <2>1, SetupIs DEF G!Init
    <3>3. 0 \in 0 .. GaugeFaults /\ 0 \in 0 .. MaxRestarts
      BY PartsAssumption DEF G!GaugeAssumption
    <3>. QED
      BY <2>1, <3>1, <3>2, <3>3 DEF G!Init, G!TypeOK
  <2>. QED
    BY <2>1, <2>2 DEF G!Init, G!IInv, G!LowPinSeen, G!SetupInOrder, G!FlagsUnderWay
<1>2. Inv /\ [MCNext]_<<part, boardVars>> => Inv'
  <2>. SUFFICES ASSUME G!IInv, part = "gauge", [MCNext]_<<part, boardVars>>
                PROVE  G!IInv'
    BY DEF MCNext
  <2>1. CASE G!Next
    BY <2>1, GaugeMainStep, GaugeChipStep, GaugeRestartStep, GaugeTaskStep DEF G!Next
  <2>2. CASE UNCHANGED gaugeVars
    BY <2>2 DEF gaugeVars, G!IInv, G!TypeOK, G!LowPinSeen, G!Clearing, G!FlagsUnderWay,
       G!SetupInOrder
  <2>. QED
    BY <2>1, <2>2 DEF MCNext, boardVars
<1>3. Inv => AlertsHeard
  <2>. SUFFICES ASSUME G!IInv PROVE G!TypeOK /\ G!LowPinSeen /\ G!ChangeAlertsOn /\ G!FlagsReported
    BY DEF AlertsHeard
  <2>. QED
    BY SetupIs DEF G!IInv, G!ChangeAlertsOn, G!FlagsReported, G!SetupInOrder, G!FlagsUnderWay,
       G!TypeOK
<1>. QED
  BY <1>1, <1>2, <1>3, PTL DEF MCSpec

-----------------------------------------------------------------------------
(* The fuel gauge's registers.                                               *)

Byte == 0 .. 255

(* The bytes of a word and its fields. *)
LEMMA BytesOfWord ==
    ASSUME NEW a \in Byte, NEW b \in Byte
    PROVE  R!WordBytes(a * 256 + b) = <<a, b>>
<1>1. (a * 256 + b) \div 256 = a /\ (a * 256 + b) % 256 = b
  BY DEF Byte
<1>. QED
  BY <1>1 DEF R!WordBytes

LEMMA FieldsOfWord ==
    ASSUME NEW a \in Byte, NEW b \in Byte
    PROVE  /\ ((a * 256 + b) \div 128) % 2 = (b \div 128) % 2
           /\ ((a * 256 + b) \div 64) % 2 = (b \div 64) % 2
           /\ ((a * 256 + b) \div 32) % 2 = (b \div 32) % 2
           /\ ((a * 256 + b) \div 1) % 32 = b % 32
           /\ ((a * 256 + b) \div 1) % 256 = b
           /\ ((a * 256 + b) \div 256) % 256 = a
<1>1. ((a * 256 + b) \div 128) % 2 = (b \div 128) % 2
  BY DEF Byte
<1>2. ((a * 256 + b) \div 64) % 2 = (b \div 64) % 2
  BY DEF Byte
<1>3. ((a * 256 + b) \div 32) % 2 = (b \div 32) % 2
  BY DEF Byte
<1>4. ((a * 256 + b) \div 1) % 32 = b % 32
  BY DEF Byte
<1>5. ((a * 256 + b) \div 1) % 256 = b
  BY DEF Byte
<1>6. ((a * 256 + b) \div 256) % 256 = a
  BY DEF Byte
<1>. QED
  BY <1>1, <1>2, <1>3, <1>4, <1>5, <1>6

(* A field of the low byte that is changed leaves the other fields alone. *)
LEMMA SleepChanged ==
    ASSUME NEW b \in Byte, NEW e \in {0, 128}, NEW c, c = b - ((b \div 128) % 2) * 128 + e
    PROVE  /\ c \in Byte
           /\ c % 32 = b % 32
           /\ (c \div 32) % 2 = (b \div 32) % 2
           /\ (c \div 64) % 2 = (b \div 64) % 2
           /\ (c \div 128) % 2 = e \div 128
<1>1. c \in Byte /\ c % 32 = b % 32
  BY DEF Byte
<1>2. (c \div 32) % 2 = (b \div 32) % 2
  BY DEF Byte
<1>3. (c \div 64) % 2 = (b \div 64) % 2
  BY DEF Byte
<1>4. (c \div 128) % 2 = e \div 128
  BY DEF Byte
<1>. QED
  BY <1>1, <1>2, <1>3, <1>4

LEMMA SocChangeChanged ==
    ASSUME NEW b \in Byte, NEW e \in {0, 64}, NEW c, c = b - ((b \div 64) % 2) * 64 + e
    PROVE  /\ c \in Byte
           /\ c % 32 = b % 32
           /\ (c \div 32) % 2 = (b \div 32) % 2
           /\ (c \div 64) % 2 = e \div 64
           /\ (c \div 128) % 2 = (b \div 128) % 2
<1>1. c \in Byte /\ c % 32 = b % 32
  BY DEF Byte
<1>2. (c \div 32) % 2 = (b \div 32) % 2
  BY DEF Byte
<1>3. (c \div 64) % 2 = e \div 64
  BY DEF Byte
<1>4. (c \div 128) % 2 = (b \div 128) % 2
  BY DEF Byte
<1>. QED
  BY <1>1, <1>2, <1>3, <1>4

LEMMA AlertChanged ==
    ASSUME NEW b \in Byte, NEW e \in {0, 32}, NEW c, c = b - ((b \div 32) % 2) * 32 + e
    PROVE  /\ c \in Byte
           /\ c % 32 = b % 32
           /\ (c \div 64) % 2 = (b \div 64) % 2
           /\ (c \div 128) % 2 = (b \div 128) % 2
<1>1. c \in Byte /\ c % 32 = b % 32
  BY DEF Byte
<1>2. (c \div 64) % 2 = (b \div 64) % 2
  BY DEF Byte
<1>3. (c \div 128) % 2 = (b \div 128) % 2
  BY DEF Byte
<1>. QED
  BY <1>1, <1>2, <1>3

LEMMA ThresholdChanged ==
    ASSUME NEW b \in Byte, NEW e \in 0 .. 31, NEW c, c = b - (b % 32) + e
    PROVE  /\ c \in Byte
           /\ c % 32 = e
           /\ (c \div 32) % 2 = (b \div 32) % 2
           /\ (c \div 64) % 2 = (b \div 64) % 2
           /\ (c \div 128) % 2 = (b \div 128) % 2
<1>1. c \in Byte /\ c % 32 = e
  BY DEF Byte
<1>2. c \div 32 = b \div 32
  BY DEF Byte
<1>3. c \div 64 = (c \div 32) \div 2 /\ b \div 64 = (b \div 32) \div 2
  BY <1>1 DEF Byte
<1>4. c \div 128 = (c \div 32) \div 4 /\ b \div 128 = (b \div 32) \div 4
  BY <1>1 DEF Byte
<1>. QED
  BY <1>1, <1>2, <1>3, <1>4

(* max17048_register_update writes the field and what the others held. *)
LEMMA ConfigUpdated ==
    ASSUME NEW a \in Byte, NEW b \in Byte, reg["CONFIG"] = <<a, b>>, NEW c \in Byte,
           NEW data, NEW mask, R!Update("CONFIG", data, mask),
           R!Masked(data, mask) + ((a * 256 + b) - R!Masked(a * 256 + b, mask)) = a * 256 + c
    PROVE  reg' = [reg EXCEPT !["CONFIG"] = <<a, c>>]
<1>1. R!ReadWord(reg["CONFIG"]) = a * 256 + b
  BY DEF R!ReadWord
<1>2. reg' = [reg EXCEPT !["CONFIG"] = R!WordBytes(a * 256 + c)]
  BY <1>1 DEF R!Update
<1>3. R!WordBytes(a * 256 + c) = <<a, c>>
  BY BytesOfWord
<1>. QED
  BY <1>2, <1>3

(* What a register update writes, from the parts of the word. *)
LEMMA UpdateWrites ==
    ASSUME NEW name, NEW data, NEW mask, NEW word \in Nat, NEW old \in Nat, NEW new \in Nat,
           R!ReadWord(reg[name]) = word,
           R!Masked(data, mask) = new, R!Masked(word, mask) = old,
           R!Update(name, data, mask)
    PROVE  reg' = [reg EXCEPT ![name] = R!WordBytes(new + (word - old))]
BY DEF R!Update

LEMMA LimitsUpdated ==
    ASSUME reg \in [R!Registers -> Byte \X Byte], NEW a \in Byte, NEW b \in Byte,
           reg["VALRT"] = <<a, b>>, NEW v \in Byte
    PROVE  /\ R!Update("VALRT", v, [low |-> 1, values |-> 256]) =>
                 reg' = [reg EXCEPT !["VALRT"] = <<a, v>>]
           /\ R!Update("VALRT", v * 256, [low |-> 256, values |-> 256]) =>
                 reg' = [reg EXCEPT !["VALRT"] = <<v, b>>]
<1>1. R!ReadWord(reg["VALRT"]) = a * 256 + b
  BY DEF R!ReadWord
<1>2. ASSUME R!Update("VALRT", v, [low |-> 1, values |-> 256])
      PROVE  reg' = [reg EXCEPT !["VALRT"] = <<a, v>>]
  <2>1. R!Masked(a * 256 + b, [low |-> 1, values |-> 256]) = b
    BY FieldsOfWord DEF R!Masked, Byte
  <2>2. R!Masked(v, [low |-> 1, values |-> 256]) = v
    BY DEF R!Masked, Byte
  <2>3. v + ((a * 256 + b) - b) = a * 256 + v
    BY DEF Byte
  <2>4. a * 256 + b \in Nat /\ v \in Nat /\ b \in Nat
    BY DEF Byte
  <2>5. reg' = [reg EXCEPT !["VALRT"] = R!WordBytes(v + ((a * 256 + b) - b))]
    BY <1>1, <1>2, <2>1, <2>2, <2>4, UpdateWrites
  <2>. QED
    BY <2>3, <2>5, BytesOfWord
<1>3. ASSUME R!Update("VALRT", v * 256, [low |-> 256, values |-> 256])
      PROVE  reg' = [reg EXCEPT !["VALRT"] = <<v, b>>]
  <2>1. R!Masked(a * 256 + b, [low |-> 256, values |-> 256]) = a * 256
    BY FieldsOfWord DEF R!Masked, Byte
  <2>2. R!Masked(v * 256, [low |-> 256, values |-> 256]) = v * 256
    <3>1. v * 256 = v * 256 + 0 /\ 0 \in Byte
      BY DEF Byte
    <3>2. ((v * 256) \div 256) % 256 = v
      BY <3>1, FieldsOfWord
    <3>. QED
      BY <3>2 DEF R!Masked
  <2>3. v * 256 + ((a * 256 + b) - a * 256) = v * 256 + b
    BY DEF Byte
  <2>4. a * 256 + b \in Nat /\ v * 256 \in Nat /\ a * 256 \in Nat
    BY DEF Byte
  <2>5. reg' = [reg EXCEPT !["VALRT"] = R!WordBytes(v * 256 + ((a * 256 + b) - a * 256))]
    BY <1>1, <1>3, <2>1, <2>2, <2>4, UpdateWrites
  <2>. QED
    BY <2>3, <2>5, BytesOfWord
<1>. QED
  BY <1>2, <1>3

RegistersInv == R!TypeOK /\ R!SettingsKept /\ R!ReadingsRight

Settings == [threshold : 1 .. 32, soc_change : BOOLEAN, sleep : BOOLEAN,
             max : Nat, min : Nat]

LEMMA RegisterNames == "CONFIG" \in R!Registers /\ "VALRT" \in R!Registers
                       /\ R!Measured \subseteq R!Registers /\ "CONFIG" \notin R!Measured
                       /\ "VALRT" \notin R!Measured
BY DEF R!Registers, R!Measured

(* A change of CONFIG's low byte keeps the invariant if the byte's fields *)
(* are the ones asked for.                                                *)
LEMMA ConfigKept ==
    ASSUME RegistersInv, NEW a \in Byte, NEW b \in Byte, reg["CONFIG"] = <<a, b>>,
           NEW c \in Byte, reg' = [reg EXCEPT !["CONFIG"] = <<a, c>>],
           UNCHANGED reading, wanted' \in Settings,
           wanted'.max = wanted.max, wanted'.min = wanted.min,
           32 - (c % 32) = wanted'.threshold,
           (c \div 64) % 2 = 1 <=> wanted'.soc_change,
           (c \div 128) % 2 = 1 <=> wanted'.sleep
    PROVE  /\ RegistersInv'
           /\ R!AlertSet <=> (b \div 32) % 2 = 1
           /\ R!AlertSet' <=> (c \div 32) % 2 = 1
<1>. reg \in [R!Registers -> Byte \X Byte]
  BY DEF RegistersInv, R!TypeOK, Byte
<1>1. reg'["CONFIG"] = <<a, c>> /\ reg'["VALRT"] = reg["VALRT"]
  BY RegisterNames
<1>2. R!TypeOK'
  <2>1. reg' \in [R!Registers -> (0 .. 255) \X (0 .. 255)]
    BY DEF Byte
  <2>. QED
    BY <2>1 DEF RegistersInv, R!TypeOK, Settings
<1>3. R!SettingsKept'
  <2>1. a = R!PowerUp["CONFIG"][1] /\ R!LimitIs(reg["VALRT"][1], wanted.min)
        /\ R!LimitIs(reg["VALRT"][2], wanted.max)
    BY DEF RegistersInv, R!SettingsKept
  <2>2. reg'["CONFIG"][1] = R!PowerUp["CONFIG"][1] /\ reg'["CONFIG"][2] = c
    BY <1>1, <2>1
  <2>3. R!LimitIs(reg'["VALRT"][1], wanted'.min) /\ R!LimitIs(reg'["VALRT"][2], wanted'.max)
    BY <1>1, <2>1
  <2>. QED
    BY <2>2, <2>3 DEF R!SettingsKept, R!PowerUp, R!Has, R!SocChangeBit, R!SleepBit
<1>4. R!ReadingsRight'
  BY DEF RegistersInv, R!ReadingsRight, R!Word
<1>5. /\ R!AlertSet <=> (b \div 32) % 2 = 1
      /\ R!AlertSet' <=> (c \div 32) % 2 = 1
  BY <1>1 DEF R!AlertSet, R!Has, R!AlertBit
<1>. QED
  BY <1>2, <1>3, <1>4, <1>5 DEF RegistersInv

LEMMA ConfigBytes ==
    ASSUME RegistersInv
    PROVE  \E a, b \in Byte :
              /\ reg["CONFIG"] = <<a, b>>
              /\ 32 - (b % 32) = wanted.threshold
              /\ (b \div 64) % 2 = 1 <=> wanted.soc_change
              /\ (b \div 128) % 2 = 1 <=> wanted.sleep
<1>0. reg["CONFIG"] \in Byte \X Byte
  BY RegisterNames DEF RegistersInv, R!TypeOK, Byte
<1>1. PICK a \in Byte, b \in Byte : reg["CONFIG"] = <<a, b>>
  BY <1>0
<1>2. reg["CONFIG"][2] = b
  BY <1>1
<1>3. 32 - (b % 32) = wanted.threshold
  BY <1>2 DEF RegistersInv, R!SettingsKept
<1>4. (b \div 64) % 2 = 1 <=> wanted.soc_change
  BY <1>2 DEF RegistersInv, R!SettingsKept, R!Has, R!SocChangeBit
<1>5. (b \div 128) % 2 = 1 <=> wanted.sleep
  BY <1>2 DEF RegistersInv, R!SettingsKept, R!Has, R!SleepBit
<1>. QED
  BY <1>1, <1>3, <1>4, <1>5

LEMMA BetweenSteps ==
    ASSUME NEW q \in Int
    PROVE  q * 4194304 = 4194304 * q /\ (q + 1) * 4194304 = 4194304 * q + 4194304
OBVIOUS

(* An accepted voltage is rounded down to a step, which fits its byte. *)
LEMMA LimitRounded ==
    ASSUME NEW voltage \in Int, R!Accepted(voltage)
    PROVE  /\ voltage \in Nat /\ R!Steps(voltage) \in Byte
           /\ R!LimitIs(R!Steps(voltage), voltage)
<1>1. voltage \in Nat /\ 10 * voltage <= 213909504
  BY DEF R!Accepted, R!Volt
<1>2. PICK n \in Nat : n = 50 * voltage
  BY <1>1
<1>3. n <= 1069547520
  BY <1>1, <1>2
<1>4. n \div 4194304 \in 0 .. 255 /\ 4194304 * (n \div 4194304) <= n
      /\ n < 4194304 * (n \div 4194304) + 4194304
  BY <1>3
<1>5. R!Steps(voltage) = n \div 4194304
  BY <1>2 DEF R!Steps, R!Volt
<1>6. PICK q \in 0 .. 255 : q = R!Steps(voltage) /\ 4194304 * q <= n /\ n < 4194304 * q + 4194304
  BY <1>4, <1>5
<1>7. q * 4194304 = 4194304 * q /\ (q + 1) * 4194304 = 4194304 * q + 4194304
  BY BetweenSteps
<1>8. R!LimitIs(q, voltage)
  BY <1>2, <1>6, <1>7 DEF R!LimitIs, R!Volt
<1>. QED
  BY <1>1, <1>6, <1>8 DEF Byte

LEMMA SettingStep ==
    ASSUME RegistersInv, R!Set \/ R!ClearAlert
    PROVE  RegistersInv' /\ (R!Set => (R!AlertSet <=> R!AlertSet'))
<1>. reg \in [R!Registers -> Byte \X Byte] /\ wanted \in Settings
  BY DEF RegistersInv, R!TypeOK, Byte, Settings
<1>1. PICK a \in Byte, b \in Byte :
              /\ reg["CONFIG"] = <<a, b>>
              /\ 32 - (b % 32) = wanted.threshold
              /\ (b \div 64) % 2 = 1 <=> wanted.soc_change
              /\ (b \div 128) % 2 = 1 <=> wanted.sleep
  BY ConfigBytes
<1>2. ASSUME NEW enable \in BOOLEAN, R!EnableSleep(enable)
      PROVE  RegistersInv' /\ (R!AlertSet <=> R!AlertSet')
  <2>. DEFINE e == IF enable THEN 128 ELSE 0
              m == ((b \div 128) % 2) * 128
              c == b - m + e
  <2>1. e \in {0, 128} /\ e \in Int /\ m \in Int /\ c = b - ((b \div 128) % 2) * 128 + e
    BY DEF Byte
  <2>2. /\ c \in Byte /\ c % 32 = b % 32
        /\ (c \div 32) % 2 = (b \div 32) % 2
        /\ (c \div 64) % 2 = (b \div 64) % 2
        /\ (c \div 128) % 2 = e \div 128
    BY <2>1, SleepChanged
  <2>3. m = R!Masked(a * 256 + b, R!Bit(128)) /\ e = R!Masked(e, R!Bit(128))
    BY <2>1, FieldsOfWord DEF R!Masked, R!Bit
  <2>4. R!Update("CONFIG", e, R!Bit(128)) /\ UNCHANGED reading
        /\ wanted' = [wanted EXCEPT !.sleep = enable]
    BY <1>2 DEF R!EnableSleep, R!SleepBit
  <2>. HIDE DEF e, m
  <2>8. R!Masked(e, R!Bit(128)) + ((a * 256 + b) - R!Masked(a * 256 + b, R!Bit(128)))
        = a * 256 + c
    BY <2>1, <2>3 DEF Byte
  <2>. HIDE DEF c
  <2>5. reg' = [reg EXCEPT !["CONFIG"] = <<a, c>>]
    BY <1>1, <2>2, <2>4, <2>8, ConfigUpdated
  <2>6. wanted' \in Settings /\ wanted'.sleep = enable /\ wanted'.threshold = wanted.threshold
        /\ wanted'.soc_change = wanted.soc_change
        /\ wanted'.max = wanted.max /\ wanted'.min = wanted.min
    BY <2>4 DEF Settings
  <2>7. e \div 128 = 1 <=> enable
    BY DEF e
  <2>9. /\ 32 - (c % 32) = wanted'.threshold
        /\ (c \div 64) % 2 = 1 <=> wanted'.soc_change
        /\ (c \div 128) % 2 = 1 <=> wanted'.sleep
    BY <1>1, <2>2, <2>6, <2>7
  <2>10. RegistersInv' /\ (R!AlertSet <=> (b \div 32) % 2 = 1)
         /\ (R!AlertSet' <=> (c \div 32) % 2 = 1)
    BY <1>1, <2>2, <2>4, <2>5, <2>6, <2>9, ConfigKept
  <2>. QED
    BY <2>2, <2>10
<1>3. ASSUME NEW enable \in BOOLEAN, R!EnableSocChangeAlert(enable)
      PROVE  RegistersInv' /\ (R!AlertSet <=> R!AlertSet')
  <2>. DEFINE e == IF enable THEN 64 ELSE 0
              m == ((b \div 64) % 2) * 64
              c == b - m + e
  <2>1. e \in {0, 64} /\ e \in Int /\ m \in Int /\ c = b - ((b \div 64) % 2) * 64 + e
    BY DEF Byte
  <2>2. /\ c \in Byte /\ c % 32 = b % 32
        /\ (c \div 32) % 2 = (b \div 32) % 2
        /\ (c \div 64) % 2 = e \div 64
        /\ (c \div 128) % 2 = (b \div 128) % 2
    BY <2>1, SocChangeChanged
  <2>3. m = R!Masked(a * 256 + b, R!Bit(64)) /\ e = R!Masked(e, R!Bit(64))
    BY <2>1, FieldsOfWord DEF R!Masked, R!Bit
  <2>4. R!Update("CONFIG", e, R!Bit(64)) /\ UNCHANGED reading
        /\ wanted' = [wanted EXCEPT !.soc_change = enable]
    BY <1>3 DEF R!EnableSocChangeAlert, R!SocChangeBit
  <2>. HIDE DEF e, m
  <2>8. R!Masked(e, R!Bit(64)) + ((a * 256 + b) - R!Masked(a * 256 + b, R!Bit(64)))
        = a * 256 + c
    BY <2>1, <2>3 DEF Byte
  <2>. HIDE DEF c
  <2>5. reg' = [reg EXCEPT !["CONFIG"] = <<a, c>>]
    BY <1>1, <2>2, <2>4, <2>8, ConfigUpdated
  <2>6. wanted' \in Settings /\ wanted'.soc_change = enable
        /\ wanted'.threshold = wanted.threshold /\ wanted'.sleep = wanted.sleep
        /\ wanted'.max = wanted.max /\ wanted'.min = wanted.min
    BY <2>4 DEF Settings
  <2>7. e \div 64 = 1 <=> enable
    BY DEF e
  <2>9. /\ 32 - (c % 32) = wanted'.threshold
        /\ (c \div 64) % 2 = 1 <=> wanted'.soc_change
        /\ (c \div 128) % 2 = 1 <=> wanted'.sleep
    BY <1>1, <2>2, <2>6, <2>7
  <2>10. RegistersInv' /\ (R!AlertSet <=> (b \div 32) % 2 = 1)
         /\ (R!AlertSet' <=> (c \div 32) % 2 = 1)
    BY <1>1, <2>2, <2>4, <2>5, <2>6, <2>9, ConfigKept
  <2>. QED
    BY <2>2, <2>10
<1>4. ASSUME NEW s \in Thresholds, R!SetEmptyAlertThreshold(s)
      PROVE  RegistersInv' /\ (R!AlertSet <=> R!AlertSet')
  <2>. DEFINE e == 32 - s
              m == b % 32
              c == b - m + e
  <2>0. s \in 1 .. 32
    BY <1>4, PartsAssumption DEF R!SetEmptyAlertThreshold, R!ArgumentAssumption
  <2>1. e \in 0 .. 31 /\ e \in Int /\ m \in Int /\ c = b - (b % 32) + e
    BY <2>0 DEF Byte
  <2>2. /\ c \in Byte /\ c % 32 = e
        /\ (c \div 32) % 2 = (b \div 32) % 2
        /\ (c \div 64) % 2 = (b \div 64) % 2
        /\ (c \div 128) % 2 = (b \div 128) % 2
    BY <2>1, ThresholdChanged
  <2>3. m = R!Masked(a * 256 + b, R!EmptyAlertMask) /\ e = R!Masked(e, R!EmptyAlertMask)
    BY <2>1, FieldsOfWord DEF R!Masked, R!EmptyAlertMask
  <2>4. R!Update("CONFIG", e, R!EmptyAlertMask) /\ UNCHANGED reading
        /\ wanted' = [wanted EXCEPT !.threshold = s]
    BY <1>4 DEF R!SetEmptyAlertThreshold
  <2>7. 32 - e = s
    BY <2>0
  <2>. HIDE DEF e, m
  <2>8. R!Masked(e, R!EmptyAlertMask) + ((a * 256 + b) - R!Masked(a * 256 + b, R!EmptyAlertMask))
        = a * 256 + c
    BY <2>1, <2>3 DEF Byte
  <2>. HIDE DEF c
  <2>5. reg' = [reg EXCEPT !["CONFIG"] = <<a, c>>]
    BY <1>1, <2>2, <2>4, <2>8, ConfigUpdated
  <2>6. wanted' \in Settings /\ wanted'.threshold = s
        /\ wanted'.soc_change = wanted.soc_change /\ wanted'.sleep = wanted.sleep
        /\ wanted'.max = wanted.max /\ wanted'.min = wanted.min
    BY <2>0, <2>4 DEF Settings
  <2>9. /\ 32 - (c % 32) = wanted'.threshold
        /\ (c \div 64) % 2 = 1 <=> wanted'.soc_change
        /\ (c \div 128) % 2 = 1 <=> wanted'.sleep
    BY <1>1, <2>2, <2>6, <2>7
  <2>10. RegistersInv' /\ (R!AlertSet <=> (b \div 32) % 2 = 1)
         /\ (R!AlertSet' <=> (c \div 32) % 2 = 1)
    BY <1>1, <2>2, <2>4, <2>5, <2>6, <2>9, ConfigKept
  <2>. QED
    BY <2>2, <2>10
<1>5. ASSUME R!ClearAlert
      PROVE  RegistersInv'
  <2>. DEFINE m == ((b \div 32) % 2) * 32
              c == b - m + 0
  <2>1. m \in Int /\ c = b - ((b \div 32) % 2) * 32 + 0
    BY DEF Byte
  <2>2. /\ c \in Byte /\ c % 32 = b % 32
        /\ (c \div 64) % 2 = (b \div 64) % 2
        /\ (c \div 128) % 2 = (b \div 128) % 2
    BY <2>1, AlertChanged
  <2>3. m = R!Masked(a * 256 + b, R!Bit(32)) /\ 0 = R!Masked(0, R!Bit(32))
    BY <2>1, FieldsOfWord DEF R!Masked, R!Bit
  <2>4. R!Update("CONFIG", 0, R!Bit(32)) /\ UNCHANGED <<reading, wanted>>
    BY <1>5 DEF R!ClearAlert, R!AlertBit
  <2>. HIDE DEF m
  <2>8. R!Masked(0, R!Bit(32)) + ((a * 256 + b) - R!Masked(a * 256 + b, R!Bit(32)))
        = a * 256 + c
    BY <2>1, <2>3 DEF Byte
  <2>. HIDE DEF c
  <2>5. reg' = [reg EXCEPT !["CONFIG"] = <<a, c>>]
    BY <1>1, <2>2, <2>4, <2>8, ConfigUpdated
  <2>6. wanted' \in Settings /\ wanted'.max = wanted.max /\ wanted'.min = wanted.min
    BY <2>4
  <2>9. /\ 32 - (c % 32) = wanted'.threshold
        /\ (c \div 64) % 2 = 1 <=> wanted'.soc_change
        /\ (c \div 128) % 2 = 1 <=> wanted'.sleep
    BY <1>1, <2>2, <2>4
  <2>. QED
    BY <1>1, <2>2, <2>4, <2>5, <2>6, <2>9, ConfigKept
<1>6. ASSUME NEW u \in Voltages, R!SetValertMax(u) \/ R!SetValertMin(u)
      PROVE  RegistersInv' /\ (R!AlertSet <=> R!AlertSet')
  <2>0. u \in Int /\ R!Accepted(u)
    BY <1>6, PartsAssumption DEF R!ArgumentAssumption, R!SetValertMax, R!SetValertMin
  <2>1. PICK v \in Byte : v = R!Steps(u) /\ R!LimitIs(v, u) /\ u \in Nat
    BY <2>0, LimitRounded
  <2>2. reg["VALRT"] \in Byte \X Byte
    BY RegisterNames
  <2>3. PICK lo \in Byte, hi \in Byte : reg["VALRT"] = <<lo, hi>>
    BY <2>2
  <2>10. R!LimitIs(lo, wanted.min) /\ R!LimitIs(hi, wanted.max)
    BY <2>3 DEF RegistersInv, R!SettingsKept
  <2>4. \/ /\ reg' = [reg EXCEPT !["VALRT"] = <<lo, v>>]
           /\ wanted' = [wanted EXCEPT !.max = u]
        \/ /\ reg' = [reg EXCEPT !["VALRT"] = <<v, hi>>]
           /\ wanted' = [wanted EXCEPT !.min = u]
    BY <1>6, <2>1, <2>3, LimitsUpdated DEF R!SetValertMax, R!SetValertMin
  <2>5. wanted' \in Settings /\ R!LimitIs(reg'["VALRT"][1], wanted'.min)
        /\ R!LimitIs(reg'["VALRT"][2], wanted'.max)
        /\ wanted'.threshold = wanted.threshold /\ wanted'.soc_change = wanted.soc_change
        /\ wanted'.sleep = wanted.sleep
    BY <2>1, <2>3, <2>4, <2>10, RegisterNames DEF Settings
  <2>6. reg' \in [R!Registers -> Byte \X Byte] /\ reg'["CONFIG"] = reg["CONFIG"]
    BY <2>1, <2>3, <2>4, RegisterNames
  <2>7. UNCHANGED reading
    BY <1>6 DEF R!SetValertMax, R!SetValertMin
  <2>8. R!TypeOK'
    BY <2>5, <2>6, <2>7 DEF RegistersInv, R!TypeOK, Settings, Byte
  <2>9. R!SettingsKept' /\ (R!AlertSet <=> R!AlertSet')
    BY <2>5, <2>6 DEF RegistersInv, R!SettingsKept, R!AlertSet, R!Has, R!PowerUp
  <2>. QED
    BY <2>7, <2>8, <2>9 DEF RegistersInv, R!ReadingsRight, R!Word
<1>7. ~(R!Set /\ R!ClearAlert) \/ R!Set
  OBVIOUS
<1>. QED
  BY <1>2, <1>3, <1>4, <1>5, <1>6 DEF R!Set

LEMMA ReadingStep ==
    ASSUME RegistersInv, NEW q \in R!Quantities, R!Get(q)
    PROVE  RegistersInv'
<1>1. R!Source[q] \in R!Registers
  BY DEF R!Quantities, R!Source, R!Registers, R!Measured
<1>2. reg[R!Source[q]] \in Byte \X Byte
  BY <1>1 DEF RegistersInv, R!TypeOK, Byte
<1>3. PICK a \in Byte, b \in Byte : reg[R!Source[q]] = <<a, b>>
  BY <1>2
<1>4. /\ reading' = [of |-> q, value |-> R!Value(q, <<a, b>>), register |-> <<a, b>>]
      /\ UNCHANGED <<reg, wanted>>
  BY <1>3 DEF R!Get
<1>5. R!EndianSwap(R!Native(<<a, b>>)) = 256 * a + b
  <2>1. (a + 256 * b) % 256 = a /\ (a + 256 * b) \div 256 = b
    BY DEF Byte
  <2>. QED
    BY <2>1 DEF R!EndianSwap, R!Native
<1>6. (a * 256 + b) % 256 = b /\ (a * 256 + b) \div 256 = a
  BY DEF Byte
<1>7. /\ q \in {"voltage", "version"} => R!Value(q, <<a, b>>) = 256 * a + b
      /\ q = "soc" => R!Value(q, <<a, b>>) = a
      /\ q = "c_rate" => R!Value(q, <<a, b>>) = R!Signed(256 * b + a)
      /\ q = "id" => R!Value(q, <<a, b>>) = b
      /\ q = "status" => R!Value(q, <<a, b>>) = a
  <2>1. R!ReadWord(<<a, b>>) = a * 256 + b
    BY DEF R!ReadWord
  <2>2. R!EndianSwap(a * 256 + b) = 256 * b + a
    BY <1>6 DEF R!EndianSwap
  <2>3. CASE q \in {"voltage", "version"}
    BY <1>5, <2>3 DEF R!Value
  <2>4. CASE q = "soc"
    BY <2>4 DEF R!Value
  <2>5. CASE q = "c_rate"
    BY <2>1, <2>2, <2>5 DEF R!Value
  <2>6. CASE q = "id"
    BY <1>6, <2>1, <2>6 DEF R!Value
  <2>7. CASE q = "status"
    BY <1>6, <2>1, <2>7 DEF R!Value
  <2>. QED
    BY <2>3, <2>4, <2>5, <2>6, <2>7 DEF R!Quantities
<1>11. R!Value(q, <<a, b>>) \in Int
  <2>1. 256 * a + b \in Int /\ a \in Int /\ b \in Int /\ R!Signed(256 * b + a) \in Int
    BY DEF Byte, R!Signed
  <2>. QED
    BY <1>7, <2>1 DEF R!Quantities
<1>8. R!TypeOK'
  <2>1. reading' \in [of : R!Quantities, value : Int, register : (0 .. 255) \X (0 .. 255)]
    BY <1>4, <1>11 DEF Byte
  <2>. QED
    BY <1>4, <2>1 DEF RegistersInv, R!TypeOK
<1>9. R!SettingsKept'
  BY <1>4 DEF RegistersInv, R!SettingsKept, R!Has
<1>10. R!ReadingsRight'
  <2>1. reading'.of = q /\ reading'.value = R!Value(q, <<a, b>>) /\ reading'.register = <<a, b>>
    BY <1>4
  <2>2. R!Word(<<a, b>>) = 256 * a + b
    BY DEF R!Word
  <2>. QED
    BY <1>7, <2>1, <2>2 DEF R!ReadingsRight, R!Quantities
<1>. QED
  BY <1>8, <1>9, <1>10 DEF RegistersInv

LEMMA ChipStep ==
    ASSUME RegistersInv, R!Measure \/ R!RaiseAlert
    PROVE  RegistersInv'
<1>. reg \in [R!Registers -> Byte \X Byte] /\ wanted \in Settings
  BY DEF RegistersInv, R!TypeOK, Byte, Settings
<1>1. CASE R!Measure
  <2>1. PICK w \in Words :
           reg' = [r \in R!Registers |-> IF r \in R!Measured THEN w ELSE reg[r]]
    BY <1>1 DEF R!Measure
  <2>2. w \in Byte \X Byte
    BY PartsAssumption DEF R!ArgumentAssumption, Byte
  <2>3. reg' \in [R!Registers -> Byte \X Byte]
    BY <2>1, <2>2
  <2>4. reg'["CONFIG"] = reg["CONFIG"] /\ reg'["VALRT"] = reg["VALRT"]
    BY <2>1, RegisterNames
  <2>5. UNCHANGED <<reading, wanted>>
    BY <1>1 DEF R!Measure
  <2>6. R!TypeOK'
    BY <2>3, <2>5 DEF RegistersInv, R!TypeOK, Byte
  <2>7. R!SettingsKept'
    BY <2>4, <2>5 DEF RegistersInv, R!SettingsKept, R!Has, R!PowerUp
  <2>. QED
    BY <2>5, <2>6, <2>7 DEF RegistersInv, R!ReadingsRight, R!Word
<1>2. CASE R!RaiseAlert
  <2>1. PICK a \in Byte, b \in Byte :
              /\ reg["CONFIG"] = <<a, b>>
              /\ 32 - (b % 32) = wanted.threshold
              /\ (b \div 64) % 2 = 1 <=> wanted.soc_change
              /\ (b \div 128) % 2 = 1 <=> wanted.sleep
    BY ConfigBytes
  <2>0. reg["CONFIG"][2] = b
    BY <2>1
  <2>2. (b \div 32) % 2 # 1 /\ UNCHANGED <<reading, wanted>>
    BY <1>2, <2>0 DEF R!RaiseAlert, R!Has, R!AlertBit
  <2>3. (b \div 32) % 2 = 0
    BY <2>2 DEF Byte
  <2>4. reg' = [reg EXCEPT !["CONFIG"] = <<a, b + 32>>]
    <3>1. reg' = [reg EXCEPT !["CONFIG"] = <<reg["CONFIG"][1], reg["CONFIG"][2] + 32>>]
      BY <1>2, RegisterNames DEF R!RaiseAlert, R!AlertBit
    <3>. QED
      BY <2>1, <2>0, <3>1
  <2>5. PICK c : c = b - ((b \div 32) % 2) * 32 + 32
    OBVIOUS
  <2>6. /\ c \in Byte
        /\ c % 32 = b % 32
        /\ (c \div 64) % 2 = (b \div 64) % 2
        /\ (c \div 128) % 2 = (b \div 128) % 2
    BY <2>5, AlertChanged
  <2>7. reg' = [reg EXCEPT !["CONFIG"] = <<a, c>>]
    <3>1. c = b + 32
      BY <2>3, <2>5 DEF Byte
    <3>. QED
      BY <2>4, <3>1
  <2>8. UNCHANGED reading /\ wanted' \in Settings /\ wanted'.max = wanted.max /\ wanted'.min = wanted.min
    BY <2>2
  <2>9. /\ 32 - (c % 32) = wanted'.threshold
        /\ (c \div 64) % 2 = 1 <=> wanted'.soc_change
        /\ (c \div 128) % 2 = 1 <=> wanted'.sleep
    BY <2>1, <2>2, <2>6
  <2>. QED
    BY <2>1, <2>6, <2>7, <2>8, <2>9, ConfigKept
<1>. QED
  BY <1>1, <1>2

LEMMA RegistersInitially ==
    ASSUME R!Init
    PROVE  RegistersInv
<1>1. /\ reg["CONFIG"] = <<151, 28>> /\ reg["VALRT"] = <<0, 255>>
      /\ R!PowerUp["CONFIG"] = <<151, 28>>
  BY RegisterNames DEF R!Init, R!PowerUp
<1>2. reg \in [R!Registers -> (0 .. 255) \X (0 .. 255)]
  <2>1. \A r \in R!Registers : R!PowerUp[r] \in {<<151, 28>>, <<0, 255>>, <<0, 0>>}
    BY DEF R!PowerUp
  <2>2. \A r \in R!Registers : R!PowerUp[r] \in (0 .. 255) \X (0 .. 255)
    BY <2>1
  <2>. QED
    BY <2>2 DEF R!Init, R!PowerUp
<1>3. wanted = [threshold |-> 4, soc_change |-> FALSE, sleep |-> FALSE, max |-> 21390951, min |-> 0]
      /\ reading = [of |-> "nothing"]
  <2>1. (255 * 4194304) \div 50 + 1 = 21390951
    OBVIOUS
  <2>. QED
    BY <2>1 DEF R!Init, R!Volt
<1>4. 28 % 32 = 28 /\ (28 \div 64) % 2 = 0 /\ (28 \div 128) % 2 = 0
  OBVIOUS
<1>5. R!SettingsKept
  <2>1. R!LimitIs(0, 0) /\ R!LimitIs(255, 21390951)
    BY DEF R!LimitIs, R!Volt
  <2>. QED
    BY <1>1, <1>3, <1>4, <2>1 DEF R!SettingsKept, R!Has, R!SocChangeBit, R!SleepBit
<1>6. R!ReadingsRight
  BY <1>3 DEF R!ReadingsRight
<1>. QED
  BY <1>2, <1>3, <1>5, <1>6 DEF RegistersInv, R!TypeOK

LEMMA RegistersStep ==
    ASSUME RegistersInv, [MCNext]_<<part, boardVars>>
    PROVE  /\ RegistersInv'
           /\ [R!Set => (R!AlertSet <=> R!AlertSet')]_registerVars
<1>1. CASE R!Next
  BY <1>1, SettingStep, ReadingStep, ChipStep DEF R!Next
<1>2. CASE UNCHANGED registerVars
  <2>. UNCHANGED <<reg, reading, wanted>>
    BY <1>2 DEF registerVars
  <2>1. R!TypeOK'
    BY DEF RegistersInv, R!TypeOK
  <2>2. R!SettingsKept'
    BY DEF RegistersInv, R!SettingsKept, R!Has
  <2>3. R!ReadingsRight'
    BY DEF RegistersInv, R!ReadingsRight, R!Word
  <2>. QED
    BY <2>1, <2>2, <2>3 DEF RegistersInv, registerVars
<1>. QED
  BY <1>1, <1>2 DEF MCNext, boardVars

(* Every field of the gauge's registers is the one last asked for, and a    *)
(* reading is what the bytes mean: SettingsRight of every run, for every    *)
(* measured word and every argument.  The invariant is its own induction    *)
(* hypothesis; the steps are the arithmetic of bytes and fields.            *)
THEOREM FieldsKept == MCSpec => []SettingsRight
<1>1. MCInit => RegistersInv
  BY RegistersInitially DEF MCInit
<1>2. RegistersInv /\ [MCNext]_<<part, boardVars>> => RegistersInv'
  BY RegistersStep
<1>3. RegistersInv => SettingsRight
  BY DEF RegistersInv, SettingsRight
<1>. QED
  BY <1>1, <1>2, <1>3, PTL DEF MCSpec

(* No setting releases the alert pin or pulls it low.                       *)
THEOREM SettingsLeaveAlert == MCSpec => R!SettingsKeepAlert
<1>1. MCInit => RegistersInv
  BY RegistersInitially DEF MCInit
<1>2. RegistersInv /\ [MCNext]_<<part, boardVars>> => RegistersInv'
  BY RegistersStep
<1>3. RegistersInv /\ [MCNext]_<<part, boardVars>> =>
          [R!Set => (R!AlertSet <=> R!AlertSet')]_R!vars
  BY RegistersStep DEF registerVars, R!vars
<1>. QED
  BY <1>1, <1>2, <1>3, PTL DEF MCSpec, R!SettingsKeepAlert

-----------------------------------------------------------------------------
(* The RGB LED and the display while pairing.                                *)

LedInv == L!TypeOK /\ L!ManualAlone

Places == {"idle", "r", "g", "b", "pixel", "refresh"}

(* A step of set_rgb_led: the task's place and what it stores. *)
LEMMA LedStepTypes ==
    ASSUME L!TypeOK, L!Steps, led_raced' \in BOOLEAN
    PROVE  L!TypeOK'
<1>. /\ rgb_data \in [L!Components -> L!Colours] /\ pixel \in [L!Components -> L!Colours]
     /\ led \in [L!Components -> L!Colours] /\ led_pc \in [L!Tasks -> Places]
     /\ colour \in [L!Tasks -> L!Colours] /\ "main" \in L!Tasks /\ "rgb" \in L!Tasks
  BY DEF L!TypeOK, Places, L!Tasks
<1>. USE DEF L!ledVars, L!mainVars
<1>0. ASSUME NEW t \in L!Tasks, NEW p \in Places, L!Goto(t, p)
      PROVE  led_pc' \in [L!Tasks -> Places]
  BY <1>0 DEF L!Goto
<1>1. ASSUME NEW t \in L!Tasks, L!StoreColour(t)
      PROVE  L!TypeOK'
  <2>1. rgb_data' \in [L!Components -> L!Colours]
    BY <1>1 DEF L!StoreColour
  <2>2. led_pc' \in [L!Tasks -> Places]
    BY <1>1, <1>0 DEF L!StoreColour, Places, L!Components
  <2>. QED
    BY <1>1, <2>1, <2>2 DEF L!StoreColour, L!TypeOK, Places
<1>2. ASSUME NEW t \in L!Tasks, L!SetPixel(t)
      PROVE  L!TypeOK'
  <2>1. led_pc' \in [L!Tasks -> Places]
    BY <1>2, <1>0 DEF L!SetPixel, Places
  <2>. QED
    BY <1>2, <2>1 DEF L!SetPixel, L!TypeOK, Places
<1>3. ASSUME NEW t \in L!Tasks, L!Refresh(t)
      PROVE  L!TypeOK'
  <2>1. led_pc' \in [L!Tasks -> Places]
    BY <1>3, <1>0 DEF L!Refresh, Places
  <2>. QED
    BY <1>3, <2>1 DEF L!Refresh, L!TypeOK, Places
<1>4. CASE L!Animate
  <2>1. led_pc' \in [L!Tasks -> Places]
    BY <1>4, <1>0 DEF L!Animate, Places
  <2>2. colour' \in [L!Tasks -> L!Colours]
    BY <1>4 DEF L!Animate, L!Colours
  <2>. QED
    BY <1>4, <2>1, <2>2 DEF L!Animate, L!TypeOK, Places
<1>5. CASE L!SetManual
  <2>1. PICK call \in L!ManualCalls :
           /\ screen' = call[2] /\ current_state' = "RGB_MANUAL"
           /\ colour' = [colour EXCEPT !["main"] = call[3]]
           /\ L!Goto("main", "r")
           /\ UNCHANGED <<rgb_data, pixel, led, enabled, event_pc>>
    BY <1>5 DEF L!SetManual
  <2>2. call[2] \in L!Screens /\ call[3] \in L!Colours
    BY DEF L!ManualCalls, L!Screens, L!Colours
  <2>3. led_pc' \in [L!Tasks -> Places]
    BY <2>1, <1>0 DEF Places
  <2>4. colour' \in [L!Tasks -> L!Colours]
    BY <2>1, <2>2
  <2>. QED
    BY <2>1, <2>2, <2>3, <2>4 DEF L!TypeOK, Places, L!RgbStates
<1>6. CASE L!EnterPairing
  BY <1>6 DEF L!EnterPairing, L!TypeOK, L!Screens, L!RgbStates
<1>7. CASE L!ShutDown
  BY <1>7 DEF L!ShutDown, L!TypeOK, L!Screens
<1>8. CASE L!DisconnectedTest \/ L!DisconnectedSet \/ L!LowBattery
  BY <1>8 DEF L!DisconnectedTest, L!DisconnectedSet, L!LowBattery, L!TypeOK, L!RgbStates
<1>. QED
  BY <1>1, <1>2, <1>3, <1>4, <1>5, <1>6, <1>7, <1>8 DEF L!Steps, L!SetRgbLed

(* What ManualAlone needs of the places and of the count of races. *)
LEMMA Races ==
    ASSUME L!CountRace
    PROVE  /\ led_raced' \in BOOLEAN
           /\ L!Overlap' => led_raced'
           /\ ~led_raced' => ~led_raced \/ L!ManualBegins
BY DEF L!CountRace

LEMMA OverlapIs ==
    /\ L!Overlap <=> led_pc["main"] # "idle" /\ led_pc["rgb"] # "idle"
    /\ L!Overlap' <=> led_pc'["main"] # "idle" /\ led_pc'["rgb"] # "idle"
BY DEF L!Overlap, L!Tasks

LEMMA LedStep ==
    ASSUME LedInv, L!Next
    PROVE  LedInv'
<1>. L!Steps /\ L!CountRace /\ L!TypeOK /\ L!ManualAlone
  BY DEF L!Next, LedInv
<1>. /\ rgb_data \in [L!Components -> L!Colours] /\ led_pc \in [L!Tasks -> Places]
     /\ colour \in [L!Tasks -> L!Colours] /\ "main" \in L!Tasks /\ "rgb" \in L!Tasks
     /\ L!Components = {"r", "g", "b"}
  BY DEF L!TypeOK, Places, L!Tasks, L!Components
<1>. USE DEF L!ledVars, L!mainVars
<1>1. L!TypeOK'
  BY LedStepTypes, Races
<1>2. ASSUME ~led_raced'
      PROVE  /\ L!MainStores'
             /\ (current_state = "RGB_MANUAL" /\ led_pc["main"] = "idle" =>
                    led_pc["rgb"] = "idle" /\ led = L!Plain(colour["main"]))'
  <2>1. ~led_raced \/ L!ManualBegins
    BY <1>2, Races
  <2>2. led_pc'["main"] = "idle" \/ led_pc'["rgb"] = "idle"
    BY <1>2, Races, OverlapIs
  <2>3. CASE L!StoreColour("main")
    <3>1. ~led_raced /\ L!MainStores
      BY <2>1, <2>3 DEF L!ManualBegins, L!StoreColour, L!ManualAlone
    <3>2. /\ led_pc["main"] \in {"r", "g", "b"} /\ colour' = colour
          /\ rgb_data' = [rgb_data EXCEPT ![led_pc["main"]] = colour["main"]]
          /\ led_pc'["main"] = CASE led_pc["main"] = "r" -> "g"
                                 [] led_pc["main"] = "g" -> "b" [] OTHER -> "pixel"
      BY <2>3 DEF L!StoreColour, L!Goto
    <3>3. CASE led_pc["main"] = "r"
      BY <3>2, <3>3 DEF L!MainStores
    <3>4. CASE led_pc["main"] = "g"
      BY <3>1, <3>2, <3>4 DEF L!MainStores
    <3>5. CASE led_pc["main"] = "b"
      <4>1. rgb_data["r"] = colour["main"] /\ rgb_data["g"] = colour["main"]
        BY <3>1, <3>5 DEF L!MainStores
      <4>2. \A i \in L!Components : rgb_data'[i] = colour["main"]
        BY <3>2, <3>5, <4>1
      <4>3. rgb_data' = L!Plain(colour["main"])
        BY <1>1, <4>2 DEF L!Plain, L!TypeOK
      <4>. QED
        BY <3>2, <3>5, <4>3 DEF L!MainStores, L!Plain
    <3>. QED
      BY <3>2, <3>3, <3>4, <3>5
  <2>4. CASE L!SetPixel("main")
    <3>1. ~led_raced /\ L!MainStores
      BY <2>1, <2>4 DEF L!ManualBegins, L!SetPixel, L!ManualAlone
    <3>2. /\ pixel' = rgb_data /\ led_pc["main"] = "pixel" /\ led_pc'["main"] = "refresh"
          /\ colour' = colour
      BY <2>4 DEF L!SetPixel, L!Goto
    <3>. QED
      BY <3>1, <3>2 DEF L!MainStores, L!Plain
  <2>5. CASE L!Refresh("main")
    <3>1. ~led_raced /\ L!MainStores /\ led_pc["rgb"] = "idle"
      BY <2>1, <2>5, OverlapIs DEF L!ManualBegins, L!Refresh, L!ManualAlone
    <3>2. /\ led' = pixel /\ led_pc["main"] = "refresh" /\ led_pc'["main"] = "idle"
          /\ led_pc'["rgb"] = "idle" /\ colour' = colour
      BY <2>5, <3>1 DEF L!Refresh, L!Goto
    <3>. QED
      BY <3>1, <3>2 DEF L!MainStores, L!Plain
  <2>6. CASE L!SetRgbLed("rgb")
    <3>1. led_pc["rgb"] # "idle" /\ led_pc'["main"] = led_pc["main"]
          /\ UNCHANGED <<current_state, colour>>
      BY <2>6 DEF L!SetRgbLed, L!StoreColour, L!SetPixel, L!Refresh, L!Goto, L!Components
    <3>2. ~led_raced
      BY <2>1, <3>1 DEF L!ManualBegins
    <3>3. led_pc["main"] = "idle" /\ current_state # "RGB_MANUAL"
      BY <3>1, <3>2, OverlapIs DEF L!ManualAlone
    <3>. QED
      BY <3>1, <3>3 DEF L!MainStores
  <2>7. CASE L!Animate
    <3>1. led_pc["rgb"] = "idle" /\ led_pc'["main"] = led_pc["main"] /\ led_pc'["rgb"] = "r"
          /\ current_state # "RGB_MANUAL" /\ UNCHANGED current_state
      BY <2>7 DEF L!Animate, L!Goto
    <3>2. led_pc'["main"] = "idle"
      BY <2>2, <3>1
    <3>. QED
      BY <3>1, <3>2 DEF L!MainStores
  <2>8. CASE L!SetManual
    <3>1. led_pc'["main"] = "r"
      BY <2>8 DEF L!SetManual, L!Goto
    <3>. QED
      BY <3>1 DEF L!MainStores
  <2>9. CASE L!EnterPairing \/ L!ShutDown \/ L!DisconnectedTest \/ L!DisconnectedSet \/ L!LowBattery
    <3>1. /\ current_state' \in {"RGB_PAIRING", "RGB_LOW_BATTERY", current_state}
          /\ UNCHANGED <<rgb_data, pixel, led, led_pc, colour>>
      BY <2>9
         DEF L!EnterPairing, L!ShutDown, L!DisconnectedTest, L!DisconnectedSet, L!LowBattery
    <3>2. ~led_raced
      BY <2>1, <3>1 DEF L!ManualBegins
    <3>. QED
      BY <3>1, <3>2 DEF L!ManualAlone, L!MainStores, L!Plain
  <2>. QED
    BY <2>3, <2>4, <2>5, <2>6, <2>7, <2>8, <2>9 DEF L!Steps, L!SetRgbLed, L!Tasks
<1>. QED
  BY <1>1, <1>2, Races DEF LedInv, L!ManualAlone

Holds(frames) == frames \in Seq(Nat \ {0}) /\ frames # <<>>

(* The frame after the last is the first. *)
LEMMA NextFrame ==
    ASSUME NEW n \in Nat \ {0}, NEW a \in 0 .. n - 1
    PROVE  (a + 1) % n = IF a + 1 = n THEN 0 ELSE a + 1
<1>1. CASE a + 1 = n
  BY <1>1
<1>2. CASE a + 1 < n
  BY <1>2
<1>. QED
  BY <1>1, <1>2

(* An update leaves a frame only when it was drawn for its hold count. *)
LEMMA AnimationStep ==
    ASSUME NEW frames, Holds(frames),
           NEW seq \in D!Sequence(frames), seq.idx <= frames[seq.current_frame + 1],
           NEW new, new = D!animation_sequence_update(seq, frames)
    PROVE  /\ new \in D!Sequence(frames) /\ new.idx <= frames[new.current_frame + 1]
           /\ new.current_frame # seq.current_frame =>
                 new.idx = 1 /\ seq.idx = frames[seq.current_frame + 1] /\ Len(frames) > 1
           /\ new.current_frame = seq.current_frame /\ Len(frames) > 1 =>
                 new.idx = seq.idx + 1
<1>. DEFINE n == Len(frames)  a == seq.current_frame  hold == frames[a + 1]
<1>1. n \in Nat \ {0} /\ a \in 0 .. n - 1 /\ seq.idx \in Nat
      /\ \A i \in 0 .. n - 1 : frames[i + 1] \in Nat \ {0}
  BY DEF Holds, D!Sequence
<1>2. (a + 1) % n = IF a + 1 = n THEN 0 ELSE a + 1
  <2>. HIDE DEF n, a
  <2>. QED
    BY <1>1, NextFrame
<1>3. CASE seq.idx >= hold
  <2>1. new = [current_frame |-> (a + 1) % n, idx |-> 1]
    BY <1>1, <1>3 DEF D!animation_sequence_update
  <2>2. new.current_frame = (a + 1) % n /\ new.idx = 1
    BY <2>1
  <2>3. new.current_frame \in 0 .. n - 1
    <3>. HIDE DEF n, a
    <3>. QED
      BY <1>1, <1>2, <2>2
  <2>4. new \in D!Sequence(frames)
    BY <2>1, <2>2, <2>3 DEF D!Sequence
  <2>5. frames[new.current_frame + 1] \in Nat \ {0}
    BY <1>1, <2>3
  <2>6. IF new.current_frame = a THEN ~(n > 1) ELSE n > 1
    <3>. HIDE DEF n, a
    <3>. QED
      BY <1>1, <1>2, <2>2
  <2>. QED
    <3>1. new.idx <= frames[new.current_frame + 1]
      BY <2>2, <2>5
    <3>2. seq.idx = hold
      BY <1>1, <1>3
    <3>3. IF new.current_frame = seq.current_frame THEN ~(Len(frames) > 1) ELSE Len(frames) > 1
      BY <2>6
    <3>4. seq.idx = frames[seq.current_frame + 1] /\ new.idx = 1
      BY <2>2, <3>2
    <3>. HIDE DEF n, a, hold
    <3>. QED
      BY <2>4, <3>1, <3>3, <3>4
<1>4. CASE ~(seq.idx >= hold)
  <2>1. new = [seq EXCEPT !.idx = @ + 1]
    BY <1>1, <1>4 DEF D!animation_sequence_update
  <2>2. new.current_frame = a /\ new.idx = seq.idx + 1 /\ new \in D!Sequence(frames)
    BY <1>1, <2>1 DEF D!Sequence
  <2>. QED
    BY <1>1, <1>4, <2>2
<1>. QED
  BY <1>3, <1>4

-----------------------------------------------------------------------------
(* The scrolls: the counter has two steps for every column. *)

LEMMA HalfBounds ==
    ASSUME NEW c \in Nat, NEW w \in Nat, NEW i \in -(2 * w) .. 2 * c
    PROVE  D!Half(i) \in -w .. c /\ D!Half(2 * c) = c
BY DEF D!Half

LEMMA NotOver ==
    ASSUME NEW w \in Nat, NEW i \in Int, ~(D!Half(i - 1) <= -w)
    PROVE  i - 1 >= -(2 * w)
BY DEF D!Half

LEMMA WidestIs ==
    /\ Cols \in Nat \ {0} /\ SearchWidth \in D!Widths /\ D!Widths \subseteq Nat
    /\ D!Widest \in D!Widths /\ \A w \in D!Widths : w <= D!Widest
    /\ None \notin Int
    /\ Names \subseteq D!Widths /\ Addresses \subseteq D!Widths
    /\ Holds(EyeFrames) /\ Closed \in 0 .. Len(EyeFrames) - 1
    /\ Holds(ArrowFrames)
<1>. D!PairingAssumption
  BY PartsAssumption
<1>1. D!Widest \in D!Widths /\ \A w \in D!Widths : w <= D!Widest
  BY DEF D!PairingAssumption, D!Widest
<1>2. Holds(EyeFrames) /\ Closed \in 0 .. Len(EyeFrames) - 1
  BY DEF D!PairingAssumption, Holds
<1>. QED
  BY <1>1, <1>2 DEF D!PairingAssumption, Holds, D!Widths

LEMMA DisplayTypes ==
    ASSUME D!IInv
    PROVE  /\ eye \in D!Sequence(EyeFrames) /\ eye.idx <= EyeFrames[eye.current_frame + 1]
           /\ arrow \in D!Sequence(ArrowFrames) /\ arrow.idx <= ArrowFrames[arrow.current_frame + 1]
           /\ cnt \in [search : 0 .. 2, code : 0 .. 4]
           /\ held \in [eye : Nat \cup {None}, arrow : Nat \cup {None}]
           /\ idx \in Int
           /\ sub # "EYES" => idx \in -(2 * D!Widest) .. 2 * Cols
BY WidestIs DEF D!IInv, D!TypeOK

(* The scroll's counter stays on its range, and so does the text drawn.     *)
LEMMA ScrollStep ==
    ASSUME D!IInv, sub # "EYES"
    PROVE  /\ D!Half(idx) \in -D!Widest .. Cols
           /\ entered => D!Half(idx) = Cols
           /\ \A w \in D!Widths : ~D!Over(w) => idx - 1 \in -(2 * D!Widest) .. 2 * Cols
<1>1. PICK i \in -(2 * D!Widest) .. 2 * Cols, c \in Nat, v \in Nat : i = idx /\ c = Cols /\ v = D!Widest
  BY DisplayTypes, WidestIs
<1>2. D!Half(idx) \in -D!Widest .. Cols /\ D!Half(2 * Cols) = Cols
  BY <1>1, HalfBounds
<1>3. ASSUME NEW w \in D!Widths, ~D!Over(w)
      PROVE  idx - 1 \in -(2 * D!Widest) .. 2 * Cols
  <2>1. w \in Nat /\ w <= D!Widest
    BY WidestIs
  <2>2. i - 1 >= -(2 * w)
    BY <1>1, <1>3, <2>1, NotOver DEF D!Over
  <2>. QED
    BY <1>1, <2>1, <2>2
<1>. QED
  BY <1>2, <1>3 DEF D!IInv

(* The state machine goes on to SEARCHING, to EYES or to CODE.              *)
LEMMA ScrollBegins == 2 * Cols \in -(2 * D!Widest) .. 2 * Cols
BY WidestIs

LEMMA EnterSearching ==
    ASSUME D!IInv, D!ToSearching
    PROVE  /\ sub' = "SEARCHING" /\ idx' = 2 * Cols /\ entered' = TRUE
           /\ cnt' \in [search : 0 .. 2, code : 0 .. 4] /\ cnt'.search = 0
           /\ UNCHANGED <<eye, held>>
BY DisplayTypes DEF D!ToSearching

LEMMA EnterEyes ==
    ASSUME D!IInv, D!ToEyes
    PROVE  /\ sub' = "EYES" /\ idx' = 0
           /\ eye' \in D!Sequence(EyeFrames) /\ eye'.idx <= EyeFrames[eye'.current_frame + 1]
           /\ held' \in [eye : Nat \cup {None}, arrow : Nat \cup {None}]
           /\ held'.eye = None /\ held'.arrow = held.arrow
<1>1. Closed \in 0 .. Len(EyeFrames) - 1 /\ EyeFrames[Closed + 1] \in Nat \ {0}
  BY WidestIs DEF Holds
<1>2. eye' = [current_frame |-> Closed, idx |-> 1]
  BY <1>1, WidestIs DEF D!ToEyes, D!animation_sequence_set_frame, Holds
<1>3. eye' \in D!Sequence(EyeFrames) /\ eye'.idx <= EyeFrames[eye'.current_frame + 1]
  BY <1>1, <1>2 DEF D!Sequence
<1>4. held' = [held EXCEPT !.eye = None] /\ sub' = "EYES" /\ idx' = 0
  BY DEF D!ToEyes
<1>. QED
  BY <1>3, <1>4, DisplayTypes

(* The number of draws goes with the animation's counter.                   *)
LEMMA DrawsCounted ==
    ASSUME NEW n, NEW old, NEW new, NEW count \in Nat \cup {None},
           n > 1 /\ count # None => count = old.idx,
           old.idx \in Nat, None \notin Int,
           new.current_frame # old.current_frame => new.idx = 1,
           new.current_frame = old.current_frame /\ n > 1 => new.idx = old.idx + 1
    PROVE  /\ D!Advanced(old, new, count) \in Nat \cup {None}
           /\ n > 1 /\ D!Advanced(old, new, count) # None => D!Advanced(old, new, count) = new.idx
           /\ count # None => D!Advanced(old, new, count) # None
BY DEF D!Advanced

(* What a scroll of a text has to leave behind. *)
LEMMA ScrollKeeps ==
    ASSUME D!IInv, UNCHANGED <<mode, bt_name, address, arrow, eye, held>>,
           sub' \in {"SEARCHING", "CODE"}, entered' \in BOOLEAN,
           at' \in (-D!Widest .. Cols) \cup {None},
           idx' \in -(2 * D!Widest) .. 2 * Cols, entered' => idx' = 2 * Cols,
           cnt' \in [search : 0 .. 2, code : 0 .. 4],
           sub' = "SEARCHING" => cnt'.search <= 1
    PROVE  D!IInv'
<1>1. idx' \in -2 * D!Widest .. 2 * Cols /\ idx' \in Int
  BY WidestIs
<1>2. mode' \in {"PAIRING", "PAIR_FAIL", "OTHER"} /\ sub' \in {"SEARCHING", "EYES", "CODE"}
  BY DEF D!IInv, D!TypeOK
<1>3. bt_name' \in Names \cup {None} /\ address' \in Addresses \cup {None}
  BY DEF D!IInv, D!TypeOK
<1>4. /\ eye' \in D!Sequence(EyeFrames) /\ eye'.idx <= EyeFrames[eye'.current_frame + 1]
      /\ arrow' \in D!Sequence(ArrowFrames)
      /\ arrow'.idx <= ArrowFrames[arrow'.current_frame + 1]
      /\ held' \in [eye : Nat \cup {None}, arrow : Nat \cup {None}]
  BY DisplayTypes
<1>5. D!TypeOK'
  BY <1>1, <1>2, <1>3, <1>4 DEF D!TypeOK
<1>6. (Len(EyeFrames) > 1 /\ held.eye # None => held.eye = eye.idx)'
  BY DEF D!IInv
<1>7. (Len(ArrowFrames) > 1 => held.arrow = arrow.idx)'
  BY DEF D!IInv
<1>. QED
  BY <1>5, <1>6, <1>7 DEF D!IInv

(* The updates of a display, each from the types and the counters.          *)
LEMMA SearchingStep ==
    ASSUME D!IInv, D!SearchingUpdate
    PROVE  D!IInv' /\ (sub # "EYES" /\ entered => at' = Cols)
<1>. sub = "SEARCHING" /\ UNCHANGED <<mode, bt_name, address, arrow>>
  BY DEF D!SearchingUpdate, D!names
<1>1. at' \in -D!Widest .. Cols /\ (entered => at' = Cols)
  BY ScrollStep DEF D!SearchingUpdate, D!Draw
<1>2. CASE ~D!Over(SearchWidth)
  <2>1. idx' = idx - 1 /\ entered' = FALSE /\ UNCHANGED <<sub, eye, held, cnt>>
    BY <1>2 DEF D!SearchingUpdate, D!GoOn
  <2>2. idx' \in -(2 * D!Widest) .. 2 * Cols
    BY <1>2, <2>1, ScrollStep, WidestIs
  <2>3. cnt' \in [search : 0 .. 2, code : 0 .. 4] /\ cnt'.search <= 1
    BY <2>1, DisplayTypes DEF D!IInv
  <2>. QED
    BY <1>1, <2>1, <2>2, <2>3, ScrollKeeps
<1>3. CASE D!Over(SearchWidth) /\ cnt.search < 1
  <2>1. /\ idx' = 2 * Cols /\ entered' = FALSE /\ cnt' = [cnt EXCEPT !.search = @ + 1]
        /\ UNCHANGED <<sub, eye, held>>
    BY <1>3, DisplayTypes DEF D!SearchingUpdate, D!GoOn
  <2>2. cnt' \in [search : 0 .. 2, code : 0 .. 4] /\ cnt'.search <= 1
    BY <1>3, <2>1, DisplayTypes
  <2>. QED
    BY <1>1, <2>1, <2>2, ScrollBegins, ScrollKeeps
<1>4. CASE D!Over(SearchWidth) /\ ~(cnt.search < 1)
  <2>1. D!ToEyes /\ cnt' = [cnt EXCEPT !.search = @ + 1]
    BY <1>4 DEF D!SearchingUpdate
  <2>2. cnt' \in [search : 0 .. 2, code : 0 .. 4]
    BY <2>1, DisplayTypes DEF D!IInv
  <2>3. entered' = TRUE
    BY <2>1 DEF D!ToEyes
  <2>. QED
    BY <1>1, <2>1, <2>2, <2>3, EnterEyes DEF D!IInv, D!TypeOK
<1>. QED
  BY <1>1, <1>2, <1>3, <1>4

LEMMA CodeStep ==
    ASSUME D!IInv, D!CodeUpdate
    PROVE  D!IInv' /\ (sub # "EYES" /\ entered /\ ~entered' => at' = Cols)
<1>. DEFINE width == IF bt_name # None THEN bt_name ELSE address
            turns == IF bt_name # None THEN 2 ELSE 5
<1>. sub = "CODE" /\ UNCHANGED <<mode, bt_name, address, arrow>>
  BY DEF D!CodeUpdate, D!names
<1>1. at' = D!Half(idx) => at' \in -D!Widest .. Cols /\ (entered => at' = Cols)
  BY ScrollStep
<1>2. at \in (-D!Widest .. Cols) \cup {None}
  BY DEF D!IInv, D!TypeOK
<1>3. CASE D!ToSearching /\ (at' = D!Half(idx) \/ at' = at)
  <2>1. at' \in (-D!Widest .. Cols) \cup {None}
    BY <1>1, <1>2, <1>3
  <2>. QED
    <3>1. /\ sub' = "SEARCHING" /\ idx' = 2 * Cols /\ entered' = TRUE /\ UNCHANGED <<eye, held>>
          /\ cnt' \in [search : 0 .. 2, code : 0 .. 4] /\ cnt'.search <= 1
      BY <1>3, EnterSearching
    <3>. QED
      BY <2>1, <3>1, ScrollBegins, ScrollKeeps
<1>4. CASE width # None /\ ~D!Over(width) /\ D!Draw /\ idx' = idx - 1 /\ D!GoOn /\ UNCHANGED cnt
  <2>1. width \in D!Widths
    BY <1>4, WidestIs DEF D!IInv, D!TypeOK
  <2>2. idx' \in -(2 * D!Widest) .. 2 * Cols
    BY <1>4, <2>1, ScrollStep
  <2>3. entered' = FALSE /\ UNCHANGED <<sub, eye, held, cnt>> /\ at' = D!Half(idx)
    BY <1>4 DEF D!GoOn, D!Draw
  <2>. QED
    BY <1>1, <2>2, <2>3, ScrollKeeps, DisplayTypes
<1>5. CASE /\ cnt.code + 1 < turns /\ D!Draw /\ idx' = 2 * Cols
           /\ cnt' = [cnt EXCEPT !.code = @ + 1] /\ D!GoOn
  <2>1. cnt' \in [search : 0 .. 2, code : 0 .. 4]
    BY <1>5, DisplayTypes
  <2>2. entered' = FALSE /\ UNCHANGED <<sub, eye, held>> /\ at' = D!Half(idx)
    BY <1>5 DEF D!GoOn, D!Draw
  <2>. QED
    BY <1>1, <1>5, <2>1, <2>2, ScrollBegins, ScrollKeeps
<1>. QED
  BY <1>3, <1>4, <1>5 DEF D!CodeUpdate, D!Draw

(* An update of one of the two animations.                                  *)
LEMMA EyeStep ==
    ASSUME D!IInv, eye' = D!animation_sequence_update(eye, EyeFrames),
           held' = [held EXCEPT !.eye = D!Advanced(eye, eye', @)]
    PROVE  /\ eye' \in D!Sequence(EyeFrames) /\ eye'.idx <= EyeFrames[eye'.current_frame + 1]
           /\ held' \in [eye : Nat \cup {None}, arrow : Nat \cup {None}]
           /\ held'.arrow = held.arrow
           /\ Len(EyeFrames) > 1 /\ held'.eye # None => held'.eye = eye'.idx
           /\ eye'.current_frame # eye.current_frame /\ held.eye # None =>
                 held.eye = EyeFrames[eye.current_frame + 1]
<1>1. PICK frames, seq, new, n, count :
         frames = EyeFrames /\ seq = eye /\ new = eye' /\ n = Len(EyeFrames) /\ count = held.eye
  OBVIOUS
<1>2. /\ new \in D!Sequence(frames) /\ new.idx <= frames[new.current_frame + 1]
      /\ new.current_frame # seq.current_frame =>
            new.idx = 1 /\ seq.idx = frames[seq.current_frame + 1] /\ Len(frames) > 1
      /\ new.current_frame = seq.current_frame /\ Len(frames) > 1 => new.idx = seq.idx + 1
  BY <1>1, DisplayTypes, WidestIs, AnimationStep
<1>3. count \in Nat \cup {None} /\ seq.idx \in Nat /\ (n > 1 /\ count # None => count = seq.idx)
  BY <1>1, DisplayTypes DEF D!IInv, D!Sequence
<1>4. /\ D!Advanced(seq, new, count) \in Nat \cup {None}
      /\ n > 1 /\ D!Advanced(seq, new, count) # None => D!Advanced(seq, new, count) = new.idx
  BY <1>1, <1>2, <1>3, WidestIs, DrawsCounted
<1>5. held' = [held EXCEPT !.eye = D!Advanced(seq, new, count)]
  BY <1>1
<1>. QED
  BY <1>1, <1>2, <1>3, <1>4, <1>5, DisplayTypes

LEMMA ArrowStep ==
    ASSUME D!IInv, arrow' = D!animation_sequence_update(arrow, ArrowFrames),
           held' = [held EXCEPT !.arrow = D!Advanced(arrow, arrow', @)]
    PROVE  /\ arrow' \in D!Sequence(ArrowFrames)
           /\ arrow'.idx <= ArrowFrames[arrow'.current_frame + 1]
           /\ held' \in [eye : Nat \cup {None}, arrow : Nat \cup {None}]
           /\ held'.eye = held.eye
           /\ Len(ArrowFrames) > 1 => held'.arrow = arrow'.idx
           /\ arrow'.current_frame # arrow.current_frame =>
                 held.arrow = ArrowFrames[arrow.current_frame + 1]
<1>1. PICK frames, seq, new, n, count :
         /\ frames = ArrowFrames /\ seq = arrow /\ new = arrow'
         /\ n = Len(ArrowFrames) /\ count = held.arrow
  OBVIOUS
<1>2. /\ new \in D!Sequence(frames) /\ new.idx <= frames[new.current_frame + 1]
      /\ new.current_frame # seq.current_frame =>
            new.idx = 1 /\ seq.idx = frames[seq.current_frame + 1] /\ Len(frames) > 1
      /\ new.current_frame = seq.current_frame /\ Len(frames) > 1 => new.idx = seq.idx + 1
  BY <1>1, DisplayTypes, WidestIs, AnimationStep
<1>3. count \in Nat \cup {None} /\ seq.idx \in Nat /\ (n > 1 => count = seq.idx)
  BY <1>1, DisplayTypes DEF D!IInv, D!Sequence
<1>4. /\ D!Advanced(seq, new, count) \in Nat \cup {None}
      /\ n > 1 /\ D!Advanced(seq, new, count) # None => D!Advanced(seq, new, count) = new.idx
      /\ count # None => D!Advanced(seq, new, count) # None
  BY <1>1, <1>2, <1>3, WidestIs, DrawsCounted
<1>5. held' = [held EXCEPT !.arrow = D!Advanced(seq, new, count)]
  BY <1>1
<1>6. n > 1 => count # None
  BY <1>3, WidestIs
<1>. QED
  BY <1>1, <1>2, <1>3, <1>4, <1>5, <1>6, DisplayTypes

LEMMA EyesStep ==
    ASSUME D!IInv, D!EyesUpdate
    PROVE  /\ D!IInv'
           /\ eye'.current_frame # eye.current_frame /\ held.eye # None =>
                 held.eye = EyeFrames[eye.current_frame + 1]
<1>. /\ sub = "EYES" /\ at' = None /\ UNCHANGED <<mode, bt_name, address, arrow>>
     /\ eye' = D!animation_sequence_update(eye, EyeFrames)
     /\ held' = [held EXCEPT !.eye = D!Advanced(eye, eye', @)]
  BY DEF D!EyesUpdate, D!names
<1>1. CASE D!ToCode
  <2>1. /\ sub' = "CODE" /\ idx' = 2 * Cols /\ entered' = TRUE
        /\ cnt' \in [search : 0 .. 2, code : 0 .. 4]
    BY <1>1, DisplayTypes DEF D!ToCode
  <2>. QED
    BY <2>1, EyeStep, ScrollBegins DEF D!IInv, D!TypeOK
<1>2. CASE idx' = idx + 1 /\ entered' = FALSE /\ UNCHANGED <<sub, cnt>>
  <2>1. idx' \in Int
    BY <1>2, DisplayTypes
  <2>. QED
    BY <1>2, <2>1, EyeStep DEF D!IInv, D!TypeOK
<1>. QED
  BY <1>1, <1>2 DEF D!EyesUpdate

LEMMA FailStep ==
    ASSUME D!IInv, D!FailUpdate
    PROVE  /\ D!IInv' /\ UNCHANGED <<entered, eye>>
           /\ arrow'.current_frame # arrow.current_frame =>
                 held.arrow = ArrowFrames[arrow.current_frame + 1]
<1>1. /\ UNCHANGED <<mode, sub, idx, cnt, bt_name, address, eye, entered, at>>
      /\ arrow' = D!animation_sequence_update(arrow, ArrowFrames)
      /\ held' = [held EXCEPT !.arrow = D!Advanced(arrow, arrow', @)]
  BY DEF D!FailUpdate, D!names
<1>. QED
  BY <1>1, ArrowStep DEF D!IInv, D!TypeOK

(* PAIRING is entered and left and the address comes and goes. *)
LEMMA PairingModes ==
    ASSUME D!IInv, D!PairingEnter \/ D!PairingExit \/ D!FailExit \/ D!WifiReady
    PROVE  /\ D!IInv' /\ UNCHANGED <<eye, arrow, held>>
           /\ entered => entered'
<1>1. CASE D!PairingEnter
  <2>1. /\ mode' = "PAIRING" /\ bt_name' \in Names \cup {None}
        /\ address' \in Addresses \cup {None} /\ UNCHANGED <<arrow, at>>
        /\ sub' = "SEARCHING" /\ idx' = 2 * Cols /\ entered' = TRUE
        /\ cnt' \in [search : 0 .. 2, code : 0 .. 4] /\ cnt'.search = 0
        /\ UNCHANGED <<eye, held>>
    BY <1>1, EnterSearching DEF D!PairingEnter
  <2>2. idx' \in -2 * D!Widest .. 2 * Cols /\ idx' \in Int
    BY <2>1, WidestIs
  <2>3. /\ eye' \in D!Sequence(EyeFrames) /\ eye'.idx <= EyeFrames[eye'.current_frame + 1]
        /\ arrow' \in D!Sequence(ArrowFrames)
        /\ arrow'.idx <= ArrowFrames[arrow'.current_frame + 1]
        /\ held' \in [eye : Nat \cup {None}, arrow : Nat \cup {None}]
    BY <2>1, DisplayTypes
  <2>4. D!TypeOK'
    BY <2>1, <2>2, <2>3 DEF D!TypeOK, D!IInv
  <2>5. (Len(EyeFrames) > 1 /\ held.eye # None => held.eye = eye.idx)'
    BY <2>1 DEF D!IInv
  <2>6. (Len(ArrowFrames) > 1 => held.arrow = arrow.idx)'
    BY <2>1 DEF D!IInv
  <2>. QED
    BY <2>1, <2>4, <2>5, <2>6 DEF D!IInv
<1>2. CASE D!PairingExit \/ D!FailExit
  <2>1. /\ mode' \in {"PAIR_FAIL", "OTHER"}
        /\ UNCHANGED <<sub, idx, cnt, bt_name, address, eye, arrow, entered, at, held>>
    BY <1>2 DEF D!PairingExit, D!FailExit, D!names, D!history
  <2>. QED
    BY <2>1 DEF D!IInv, D!TypeOK
<1>3. CASE D!WifiReady
  <2>1. /\ address' \in Addresses \cup {None}
        /\ UNCHANGED <<mode, sub, idx, cnt, bt_name, eye, arrow, entered, at, held>>
    BY <1>3 DEF D!WifiReady, D!history
  <2>. QED
    BY <2>1 DEF D!IInv, D!TypeOK
<1>. QED
  BY <1>1, <1>2, <1>3

(* What a text that is not drawn yet and a frame that changes have to be.   *)
EntersRight == sub # "EYES" /\ entered /\ ~entered' => at' = Cols

FrameHeld ==
    /\ eye'.current_frame # eye.current_frame /\ sub = "EYES" /\ held.eye # None =>
          held.eye = EyeFrames[eye.current_frame + 1]
    /\ arrow'.current_frame # arrow.current_frame =>
          held.arrow = ArrowFrames[arrow.current_frame + 1]

LEMMA DisplayStep ==
    ASSUME D!IInv, D!Next
    PROVE  D!IInv' /\ EntersRight /\ FrameHeld
<1>1. CASE D!SearchingUpdate
  <2>1. arrow' = arrow /\ sub = "SEARCHING"
    BY <1>1 DEF D!SearchingUpdate
  <2>. QED
    BY <1>1, <2>1, SearchingStep DEF EntersRight, FrameHeld
<1>2. CASE D!CodeUpdate
  <2>1. arrow' = arrow /\ sub = "CODE"
    BY <1>2 DEF D!CodeUpdate
  <2>. QED
    BY <1>2, <2>1, CodeStep DEF EntersRight, FrameHeld
<1>3. CASE D!EyesUpdate
  <2>1. arrow' = arrow /\ sub = "EYES"
    BY <1>3 DEF D!EyesUpdate
  <2>. QED
    BY <1>3, <2>1, EyesStep DEF EntersRight, FrameHeld
<1>4. CASE D!FailUpdate
  BY <1>4, FailStep DEF EntersRight, FrameHeld
<1>5. CASE D!PairingEnter \/ D!PairingExit \/ D!FailExit \/ D!WifiReady
  BY <1>5, PairingModes DEF EntersRight, FrameHeld
<1>. QED
  BY <1>1, <1>2, <1>3, <1>4, <1>5 DEF D!Next, D!Update

LEMMA DisplayInit == MCInit => D!IInv
<1>. SUFFICES ASSUME D!Init PROVE D!IInv
  BY DEF MCInit
<1>1. eye \in D!Sequence(EyeFrames) /\ eye.idx = 0 /\ eye.idx <= EyeFrames[eye.current_frame + 1]
  BY WidestIs DEF D!Init, D!animation_sequence_reset, D!Sequence, Holds
<1>2. arrow \in D!Sequence(ArrowFrames) /\ arrow.idx = 0
      /\ arrow.idx <= ArrowFrames[arrow.current_frame + 1]
  BY WidestIs DEF D!Init, D!animation_sequence_reset, D!Sequence, Holds
<1>3. idx \in -2 * D!Widest .. 2 * Cols /\ idx \in Int
  BY WidestIs DEF D!Init
<1>4. D!TypeOK
  BY <1>1, <1>2, <1>3 DEF D!Init, D!TypeOK
<1>. QED
  BY <1>1, <1>2, <1>4 DEF D!Init, D!IInv

-----------------------------------------------------------------------------
(* The display and the LED in every behaviour of MCBoard. *)

LEMMA DisplayInvariant == D!IInv /\ [MCNext]_<<part, boardVars>> => D!IInv'
<1>. SUFFICES ASSUME D!IInv, [MCNext]_<<part, boardVars>> PROVE D!IInv'
  OBVIOUS
<1>1. CASE D!Next
  BY <1>1, DisplayStep
<1>2. CASE UNCHANGED pairingVars
  BY <1>2 DEF pairingVars, D!IInv, D!TypeOK
<1>. QED
  BY <1>1, <1>2 DEF MCNext, boardVars

LEMMA LedInvariant == LedInv /\ [MCNext]_<<part, boardVars>> => LedInv'
<1>. SUFFICES ASSUME LedInv, [MCNext]_<<part, boardVars>> PROVE LedInv'
  OBVIOUS
<1>1. CASE L!Next
  BY <1>1, LedStep
<1>2. CASE UNCHANGED ledVars
  <2>1. UNCHANGED <<current_state, rgb_data, pixel, led, led_pc, colour, screen, enabled,
                    event_pc, led_raced>>
    BY <1>2 DEF ledVars
  <2>2. L!TypeOK'
    BY <2>1 DEF LedInv, L!TypeOK
  <2>3. L!ManualAlone'
    BY <2>1 DEF LedInv, L!ManualAlone, L!MainStores, L!Overlap, L!Plain
  <2>. QED
    BY <2>2, <2>3 DEF LedInv
<1>. QED
  BY <1>1, <1>2 DEF MCNext, boardVars

(* LightsRight of every run, for every width of a text, every display and   *)
(* every animation: a colour of RGB_MANUAL stays, since the RGB task begins *)
(* nothing in that state and finds it done when no race was counted.        *)
THEOREM LightsKept == MCSpec => []LightsRight
<1>. DEFINE Inv == LedInv /\ D!IInv
<1>1. MCInit => Inv
  <2>1. MCInit => L!TypeOK
    <3>. SUFFICES ASSUME L!Init PROVE L!TypeOK
      BY DEF MCInit
    <3>1. /\ rgb_data \in [L!Components -> L!Colours] /\ pixel \in [L!Components -> L!Colours]
          /\ led \in [L!Components -> L!Colours]
      BY DEF L!Init, L!Plain, L!Colours
    <3>2. led_pc \in [L!Tasks -> {"idle", "r", "g", "b", "pixel", "refresh"}]
          /\ colour \in [L!Tasks -> L!Colours]
      BY DEF L!Init, L!Colours
    <3>. QED
      BY <3>1, <3>2 DEF L!Init, L!TypeOK, L!Screens, L!RgbStates
  <2>2. MCInit => L!ManualAlone
    BY DEF MCInit, L!Init, L!ManualAlone, L!MainStores, L!Overlap, L!Tasks, L!Plain
  <2>. QED
    BY <2>1, <2>2, DisplayInit DEF LedInv
<1>2. Inv /\ [MCNext]_<<part, boardVars>> => Inv'
  BY LedInvariant, DisplayInvariant
<1>3. Inv => LightsRight
  BY DEF LedInv, LightsRight, L!ManualAlone, L!ManualColourKept, L!Quiet, L!Tasks, D!IInv
<1>. QED
  BY <1>1, <1>2, <1>3, PTL DEF MCSpec

(* The safety half of PairingShown: a text enters from the right, whatever *)
(* the shared counter was used for, and every frame is drawn as often as    *)
(* its hold count says.                                                     *)
THEOREM DisplaysInOrder == MCSpec => D!TextEntersRight /\ D!FramesHeld
<1>1. D!IInv /\ [MCNext]_<<part, boardVars>> => [EntersRight /\ FrameHeld]_(D!vars)
  <2>. SUFFICES ASSUME D!IInv, [MCNext]_<<part, boardVars>>
                PROVE  [EntersRight /\ FrameHeld]_(D!vars)
    OBVIOUS
  <2>1. CASE D!Next
    BY <2>1, DisplayStep
  <2>2. CASE UNCHANGED pairingVars
    BY <2>2 DEF pairingVars, D!vars, D!names, D!history
  <2>. QED
    BY <2>1, <2>2 DEF MCNext, boardVars
<1>2. [EntersRight /\ FrameHeld]_(D!vars) =>
        /\ [sub # "EYES" /\ entered /\ ~entered' => at' = Cols]_(D!vars)
        /\ [/\ eye'.current_frame # eye.current_frame /\ sub = "EYES" /\ held.eye # None =>
                  held.eye = EyeFrames[eye.current_frame + 1]
            /\ arrow'.current_frame # arrow.current_frame =>
                  held.arrow = ArrowFrames[arrow.current_frame + 1]]_(D!vars)
  BY DEF EntersRight, FrameHeld
<1>. QED
  BY <1>1, <1>2, DisplayInit, DisplayInvariant, PTL DEF MCSpec, D!TextEntersRight, D!FramesHeld

-----------------------------------------------------------------------------
(* The swap of the display's buffers.                                        *)

USE RowsAssumption, BoundsAssumption

-----------------------------------------------------------------------------
(* Type correctness. *)

(* A step of a drawing task keeps the types. *)
LEMMA DrawStepsType ==
    ASSUME TypeOK, NEW w \in Writers, DrawSteps(w), raced' \in BOOLEAN
    PROVE  TypeOK'
<1>1. CASE Clear(w)
  <2>1. drawn + 1 \in 0..MaxFrames
    BY <1>1 DEF Clear, TypeOK
  <2>2. [frame |-> drawn + 1, whole |-> FALSE] \in Contents
    BY <2>1 DEF Contents
  <2>. QED
    BY <1>1, <2>1, <2>2
       DEF Clear, Goto, TypeOK, pointers, displayVars, selectVars
<1>2. CASE Draw(w)
  <2>1. [frame |-> mine[w], whole |-> content[wbuf].frame = mine[w]] \in Contents
    BY DEF TypeOK, Contents
  <2>. QED
    BY <1>2, <2>1 DEF Draw, Goto, TypeOK, pointers, displayVars, selectVars
<1>3. CASE UpdateTake(w)
  BY <1>3 DEF UpdateTake, Goto, TypeOK, pointers, displayVars, selectVars
<1>4. CASE StoreI(w)
  BY <1>4 DEF StoreI, Goto, TypeOK, displayVars, selectVars
<1>5. CASE StoreW(w)
  BY <1>5 DEF StoreW, Goto, TypeOK, displayVars, selectVars
<1>6. CASE Announce(w)
  BY <1>6 DEF Announce, Goto, TypeOK, pointers, displayVars, selectVars
<1>7. CASE StoreR(w)
  BY <1>7 DEF StoreR, Goto, TypeOK, displayVars, selectVars
<1>. QED
  BY <1>1, <1>2, <1>3, <1>4, <1>5, <1>6, <1>7 DEF DrawSteps

(* A step of the display task or of select_action keeps the types. *)
LEMMA OtherStepsType ==
    ASSUME TypeOK, DisplaySteps \/ Select, raced' \in BOOLEAN
    PROVE  TypeOK'
<1>1. CASE StartOfFrame
  BY <1>1 DEF StartOfFrame, TypeOK, pointers, drawVars, selectVars
<1>2. CASE SwapClear
  BY <1>2 DEF SwapClear, TypeOK, pointers, drawVars, selectVars
<1>3. CASE SwapTake
  BY <1>3 DEF SwapTake, TypeOK, pointers, drawVars, selectVars
<1>4. CASE SwapStoreI
  BY <1>4 DEF SwapStoreI, TypeOK, drawVars, selectVars
<1>5. CASE SwapStoreR
  BY <1>5 DEF SwapStoreR, TypeOK, drawVars, selectVars
<1>6. CASE CopyRow
  <2>1. row_idx' \in 0..(Rows - 1)
    BY <1>6 DEF CopyRow, TypeOK
  <2>2. scan' \subseteq Contents
    <3>1. content[rbuf] \in Contents
      BY DEF TypeOK
    <3>2. scan' \subseteq scan \cup {content[rbuf]}
      BY <1>6 DEF CopyRow
    <3>. QED
      BY <3>1, <3>2 DEF TypeOK
  <2>. QED
    BY <1>6, <2>1, <2>2 DEF CopyRow, TypeOK, pointers, drawVars, selectVars
<1>7. CASE Select
  BY <1>7 DEF Select, TypeOK, pointers, drawVars
<1>. QED
  BY <1>1, <1>2, <1>3, <1>4, <1>5, <1>6, <1>7 DEF DisplaySteps

(* Every variable keeps its type: the row counter stays on the display. *)
THEOREM TypeCorrect == SafetySpec => []TypeOK
<1>1. Init => TypeOK
  <2> SUFFICES ASSUME Init PROVE TypeOK
    OBVIOUS
  <2>1. 0 \in 0..(Rows - 1) /\ 0 \in 0..MaxFrames /\ Presses \in 0..Presses
    OBVIOUS
  <2>2. content \in [Buffers -> Contents]
    BY <2>1 DEF Init, Contents
  <2>3. /\ pc \in [Writers -> {"idle", "draw", "update", "store_i", "store_w",
                                "announce", "store_r", "store_wr"}]
        /\ temp \in [Writers -> Buffers]
        /\ mine \in [Writers -> 0..MaxFrames]
    BY <2>1 DEF Init, Buffers
  <2>. QED
    BY <2>1, <2>2, <2>3 DEF Init, TypeOK, Buffers
<1>2. TypeOK /\ [Next]_vars => TypeOK'
  <2>1. ASSUME TypeOK, Next PROVE TypeOK'
    <3>1. raced' \in BOOLEAN
      BY <2>1 DEF Next, Overlap, TypeOK
    <3>. QED
      BY <2>1, <3>1, DrawStepsType, OtherStepsType DEF Next
  <2>2. ASSUME TypeOK, UNCHANGED vars PROVE TypeOK'
    BY <2>2 DEF TypeOK, vars, pointers, drawVars, displayVars, selectVars
  <2>. QED
    BY <2>1, <2>2
<1>. QED
  BY <1>1, <1>2, PTL DEF SafetySpec

-----------------------------------------------------------------------------
(* Overlaps need an early frame. *)

(* A step keeps everyone in turn. *)
LEMMA InTurnStep ==
    ASSUME TypeOK, InTurn, Next
    PROVE  InTurn'
<1>1. Untouched' => Untouched /\ triple_buffering /\ triple_buffering'
  BY DEF InTurn, Untouched, Next, TypeOK, DisplaySteps, DrawSteps, Select, selectVars,
         StartOfFrame, SwapClear, SwapTake, SwapStoreI, SwapStoreR, CopyRow,
         Clear, Draw, UpdateTake, StoreI, StoreW, Announce, StoreR
<1>2. overrun => overrun'
  BY DEF Next, TypeOK, DisplaySteps, DrawSteps, Select,
         StartOfFrame, SwapClear, SwapTake, SwapStoreI, SwapStoreR, CopyRow,
         Clear, Draw, UpdateTake, StoreI, StoreW, Announce, StoreR
<1> SUFFICES ASSUME Untouched', ~overrun'
             PROVE  /\ ~raced'
                    /\ \E w \in Writers : pc'[w] = "idle"
                    /\ \A w \in Writers : pc'[w] \notin {"store_r", "store_wr"}
                    /\ \A w \in Writers : InUpdate(w)' =>
                          ~update' /\ display_pc' \in {"row", "copy"}
  BY <1>1 DEF InTurn
<1>3. /\ ~raced /\ triple_buffering /\ triple_buffering'
      /\ \E w \in Writers : pc[w] = "idle"
      /\ \A w \in Writers : pc[w] \notin {"store_r", "store_wr"}
      /\ \A w \in Writers : InUpdate(w) => ~update /\ display_pc \in {"row", "copy"}
  BY <1>1, <1>2 DEF InTurn
<1>4. /\ \E w \in Writers : pc'[w] = "idle"
      /\ \A w \in Writers : pc'[w] \notin {"store_r", "store_wr"}
      /\ \A w \in Writers : InUpdate(w)' => ~update' /\ display_pc' \in {"row", "copy"}
  <2>1. ASSUME NEW w \in Writers, Clear(w) PROVE <1>4
    BY <1>3, <2>1 DEF Clear, Goto, TypeOK, InUpdate, Writers, displayVars
  <2>2. ASSUME NEW w \in Writers, Draw(w) PROVE <1>4
    BY <1>3, <2>2 DEF Draw, Goto, TypeOK, InUpdate, Writers, displayVars
  <2>3. ASSUME NEW w \in Writers, UpdateTake(w) PROVE <1>4
    BY <1>3, <2>3 DEF UpdateTake, Goto, TypeOK, InUpdate, Writers, displayVars
  <2>4. ASSUME NEW w \in Writers, StoreI(w) PROVE <1>4
    BY <1>3, <2>4 DEF StoreI, Goto, TypeOK, InUpdate, Writers, displayVars
  <2>5. ASSUME NEW w \in Writers, StoreW(w) PROVE <1>4
    BY <1>3, <2>5 DEF StoreW, Goto, TypeOK, InUpdate, Writers, displayVars
  <2>6. ASSUME NEW w \in Writers, Announce(w) PROVE <1>4
    BY <1>3, <2>6 DEF Announce, Goto, TypeOK, InUpdate, Writers, displayVars
  <2>7. ASSUME NEW w \in Writers, StoreR(w) PROVE <1>4
    BY <1>3, <2>7 DEF StoreR
  <2>8. CASE DisplaySteps
    BY <1>3, <2>8 DEF DisplaySteps, StartOfFrame, SwapClear, SwapTake, SwapStoreI,
       SwapStoreR, CopyRow, InUpdate, drawVars
  <2>9. CASE Select
    BY <1>3, <2>9 DEF Select, InUpdate, drawVars
  <2>. QED
    BY <2>1, <2>2, <2>3, <2>4, <2>5, <2>6, <2>7, <2>8, <2>9 DEF Next, DrawSteps
<1>5. pc' \in [Writers -> {"idle", "draw", "update", "store_i", "store_w",
                           "announce", "store_r", "store_wr"}]
  BY DrawStepsType, OtherStepsType DEF Next, TypeOK, Overlap
<1>6. ~Overlap'
  BY <1>4, <1>5 DEF Overlap, InUpdate
<1>7. ~raced'
  BY <1>3, <1>6 DEF Next
<1>. QED
  BY <1>4, <1>7

(* As long as no frame comes early and no press changes the mode, the      *)
(* display's swap and a drawing task's never overlap.                      *)
THEOREM SlowDrawingIsSafe == SafetySpec => []RaceNeedsOverrun
<1>1. Init => InTurn
  BY DEF Init, InTurn, Untouched, InUpdate, Writers
<1>2. TypeOK /\ InTurn /\ [Next]_vars => InTurn'
  <2>1. ASSUME InTurn, UNCHANGED vars PROVE InTurn'
    BY <2>1 DEF InTurn, Untouched, InUpdate, vars, drawVars, displayVars, selectVars
  <2>. QED
    BY <2>1, InTurnStep
<1>3. InTurn => RaceNeedsOverrun
  BY DEF InTurn, RaceNeedsOverrun
<1>. QED
  BY <1>1, <1>2, <1>3, TypeCorrect, PTL DEF SafetySpec
-----------------------------------------------------------------------------
(* Whole frames. *)

(* A drawing task keeps the invariant as long as nobody is in its way.     *)
LEMMA DrawStepsNoTear ==
    ASSUME TypeOK, NoTearInv, ~raced, ~Overlap', NEW w \in Writers, DrawSteps(w)
    PROVE  Handover' /\ WholeFrames' /\ ScanOfShown'
<1>0. ~Overlap /\ Handover /\ WholeFrames /\ ScanOfShown
  BY DEF NoTearInv
<1>1. \A v \in Writers : v # w => pc[v] = "idle" /\ pc'[v] = "idle"
  BY <1>0 DEF DrawSteps, Overlap, Goto, TypeOK, Writers,
     Clear, Draw, UpdateTake, StoreI, StoreW, Announce, StoreR
<1>2. CASE Clear(w)
  <2>1. /\ rbuf # wbuf
        /\ content'[wbuf] = [frame |-> drawn + 1, whole |-> FALSE]
        /\ \A b \in Buffers : b # wbuf => content'[b] = content[b]
    BY <1>0, <1>1, <1>2 DEF Clear, Handover, Distinct, TypeOK
  <2>2. pc'[w] = "draw" /\ mine'[w] = drawn + 1 /\ rbuf' = rbuf /\ wbuf' = wbuf
    BY <1>2 DEF Clear, Goto, TypeOK, pointers
  <2>3. Handover'
    BY <1>0, <1>1, <1>2 DEF Clear, Goto, Handover, Distinct, TypeOK, pointers, displayVars
  <2>4. WholeFrames'
    BY <1>0, <1>1, <1>2, <2>1, <2>2 DEF WholeFrames, Drawing
  <2>5. content'[rbuf] = content[rbuf]
    BY <2>1 DEF TypeOK
  <2>6. ScanOfShown'
    BY <1>0, <1>2, <2>2, <2>5 DEF Clear, ScanOfShown, displayVars, selectVars
  <2>. QED
    BY <2>3, <2>4, <2>6
<1>3. CASE Draw(w)
  <2>1. /\ rbuf # wbuf
        /\ content'[wbuf] = [frame |-> mine[w], whole |-> TRUE]
        /\ \A b \in Buffers : b # wbuf => content'[b] = content[b]
    BY <1>0, <1>1, <1>3 DEF Draw, Handover, Distinct, WholeFrames, TypeOK
  <2>2. pc'[w] = "update" /\ rbuf' = rbuf /\ wbuf' = wbuf
    BY <1>3 DEF Draw, Goto, TypeOK, pointers
  <2>3. Handover'
    BY <1>0, <1>1, <1>3 DEF Draw, Goto, Handover, Distinct, TypeOK, pointers, displayVars
  <2>4. WholeFrames'
    BY <1>0, <1>1, <1>3, <2>1, <2>2 DEF WholeFrames, Drawing
  <2>5. content'[rbuf] = content[rbuf]
    BY <2>1 DEF TypeOK
  <2>6. ScanOfShown'
    BY <1>0, <1>3, <2>2, <2>5 DEF Draw, ScanOfShown, displayVars, selectVars
  <2>. QED
    BY <2>3, <2>4, <2>6
<1>4. ASSUME UpdateTake(w) \/ StoreI(w) \/ StoreW(w) \/ Announce(w) \/ StoreR(w)
      PROVE  Handover' /\ WholeFrames' /\ ScanOfShown'
  <2>1. /\ pc[w] # "draw" /\ pc'[w] # "draw"
        /\ content' = content /\ mine' = mine
        /\ display_pc' = display_pc /\ display_temp' = display_temp
        /\ row_idx' = row_idx /\ scan' = scan /\ triple_buffering' = triple_buffering
    BY <1>4 DEF UpdateTake, StoreI, StoreW, Announce, StoreR, Goto, TypeOK, displayVars,
       selectVars
  <2>2. WholeFrames'
    BY <1>0, <1>1, <2>1 DEF WholeFrames, Drawing
  <2>3. rbuf' = rbuf \/ ~triple_buffering
    BY <1>0, <1>4 DEF UpdateTake, StoreI, StoreW, Announce, StoreR, Overlap, pointers
  <2>4. ScanOfShown'
    BY <1>0, <2>1, <2>3 DEF ScanOfShown
  <2>5. Handover'
    <3>1. CASE UpdateTake(w)
      BY <1>0, <1>1, <3>1
         DEF UpdateTake, Goto, Handover, Distinct, Overlap, TypeOK, pointers, displayVars
    <3>2. CASE StoreI(w)
      BY <1>0, <1>1, <3>2
         DEF StoreI, Goto, Handover, Distinct, Overlap, TypeOK, displayVars
    <3>3. CASE StoreW(w)
      BY <1>0, <1>1, <3>3
         DEF StoreW, Goto, Handover, Distinct, Overlap, TypeOK, displayVars
    <3>4. CASE Announce(w)
      BY <1>0, <1>1, <3>4
         DEF Announce, Goto, Handover, Distinct, Overlap, TypeOK, pointers, displayVars
    <3>5. CASE StoreR(w)
      BY <1>0, <1>1, <3>5
         DEF StoreR, Goto, Handover, Distinct, Overlap, TypeOK, displayVars
    <3>. QED
      BY <1>4, <3>1, <3>2, <3>3, <3>4, <3>5
  <2>. QED
    BY <2>2, <2>4, <2>5
<1>. QED
  BY <1>2, <1>3, <1>4 DEF DrawSteps

(* So does the display task, and a change of the mode. *)
LEMMA DisplayStepsNoTear ==
    ASSUME TypeOK, NoTearInv, ~raced, ~Overlap', DisplaySteps \/ Select
    PROVE  Handover' /\ WholeFrames' /\ ScanOfShown'
<1>0. ~Overlap /\ Handover /\ WholeFrames /\ ScanOfShown
  BY DEF NoTearInv
<1>1. content' = content /\ mine' = mine /\ pc' = pc /\ temp' = temp /\ wbuf' = wbuf
  BY DEF DisplaySteps, StartOfFrame, SwapClear, SwapTake, SwapStoreI, SwapStoreR, CopyRow,
     Select, drawVars, pointers
<1>2. WholeFrames'
  BY <1>0, <1>1 DEF WholeFrames, Drawing
<1>3. CASE StartOfFrame \/ SwapClear
  <2>1. Handover'
    BY <1>0, <1>1, <1>3 DEF StartOfFrame, SwapClear, Handover, Distinct, pointers
  <2>2. ScanOfShown'
    BY <1>0, <1>1, <1>3 DEF StartOfFrame, SwapClear, ScanOfShown, pointers, selectVars
  <2>. QED
    BY <1>2, <2>1, <2>2
<1>4. CASE SwapTake \/ SwapStoreI \/ SwapStoreR
  <2>1. \A w \in Writers : pc[w] \in {"idle", "draw", "update"}
    BY <1>0, <1>1, <1>4 DEF Overlap, SwapTake, SwapStoreI, SwapStoreR
  <2>2. Handover'
    BY <1>0, <1>1, <1>4, <2>1
       DEF SwapTake, SwapStoreI, SwapStoreR, Handover, Distinct, TypeOK, pointers
  <2>3. ScanOfShown'
    BY <1>0, <1>1, <1>4
       DEF SwapTake, SwapStoreI, SwapStoreR, ScanOfShown, pointers, selectVars
  <2>. QED
    BY <1>2, <2>2, <2>3
<1>5. CASE CopyRow
  <2>1. Handover'
    BY <1>0, <1>1, <1>5 DEF CopyRow, Handover, Distinct, pointers
  <2>2. content[rbuf].whole
    BY <1>0, <1>5 DEF CopyRow, Handover, Distinct, WholeFrames, Drawing, Overlap, TypeOK,
       Writers
  <2>3. \A c \in scan' : c.whole
    BY <1>0, <1>5, <2>2 DEF CopyRow, ScanOfShown
  <2>4. triple_buffering => scan' = {content[rbuf]}
    BY <1>0, <1>5 DEF CopyRow, ScanOfShown
  <2>5. ScanOfShown'
    BY <1>1, <1>5, <2>3, <2>4 DEF CopyRow, ScanOfShown, pointers, selectVars
  <2>. QED
    BY <1>2, <2>1, <2>5
<1>6. CASE Select
  <2>1. Handover'
    BY <1>0, <1>1, <1>6 DEF Select, Handover, Distinct, pointers
  <2>2. ScanOfShown'
    BY <1>0, <1>6 DEF Select, ScanOfShown
  <2>. QED
    BY <1>2, <2>1, <2>2
<1>. QED
  BY <1>3, <1>4, <1>5, <1>6 DEF DisplaySteps

(* The swaps hand the buffers over. *)
LEMMA NoTearStep == TypeOK /\ NoTearInv /\ [Next]_vars => NoTearInv'
<1>1. ASSUME TypeOK, NoTearInv, Next PROVE NoTearInv'
  <2> SUFFICES ASSUME ~raced'
               PROVE  ~Overlap' /\ Handover' /\ WholeFrames' /\ ScanOfShown'
    BY DEF NoTearInv
  <2>1. ~raced /\ ~Overlap'
    BY <1>1 DEF Next, Overlap, TypeOK
  <2>. QED
    BY <1>1, <2>1, DrawStepsNoTear, DisplayStepsNoTear DEF Next
<1>2. ASSUME NoTearInv, UNCHANGED vars PROVE NoTearInv'
  BY <1>2 DEF NoTearInv, Overlap, Handover, Distinct, WholeFrames, Drawing, ScanOfShown,
     vars, pointers, drawVars, displayVars, selectVars
<1>. QED
  BY <1>1, <1>2

LEMMA NoTearInvariant == SafetySpec => []NoTearInv
<1>1. Init => NoTearInv
  BY DEF Init, NoTearInv, Overlap, Handover, Distinct, WholeFrames, Drawing, ScanOfShown,
     Buffers, Writers
<1>. QED
  BY <1>1, NoTearStep, TypeCorrect, PTL DEF SafetySpec

(* Unless two tasks were in the pointers at once the display shows whole   *)
(* frames only, one per scan, in both modes and across their switch.       *)
THEOREM WholeFramesShown == SafetySpec => []NoTear
<1>1. NoTearInv => NoTear
  BY DEF NoTearInv, NoTear, ScanOfShown
<1>. QED
  BY <1>1, NoTearInvariant, PTL

(* Whole frames without a race, and no race without an early frame. *)
THEOREM FramesAreWhole == SafetySpec => []FramesWhole
BY TypeCorrect, WholeFramesShown, SlowDrawingIsSafe, PTL DEF FramesWhole

-----------------------------------------------------------------------------
(* The order of the frames, and the buffers as a mailbox for one frame.      *)

(* What is handed over and what is on its way, when w alone may be at work. *)
LEMMA MailIs ==
    ASSUME NEW w \in Writers, \A v \in Writers : v # w => pc[v] = "idle"
    PROVE  /\ pc[w] \in {"draw", "update", "store_i"} => HandedOver = drawn - 1
           /\ pc[w] \notin {"draw", "update", "store_i"} => HandedOver = drawn
           /\ OnItsWay <=> \/ update \/ display_pc \in {"clear", "take", "store_i", "store_r"}
                           \/ pc[w] \in {"store_w", "announce"}
BY DEF HandedOver, OnItsWay

LEMMA MailWillBe ==
    ASSUME NEW w \in Writers, \A v \in Writers : v # w => pc'[v] = "idle"
    PROVE  /\ pc'[w] \in {"draw", "update", "store_i"} => HandedOver' = drawn' - 1
           /\ pc'[w] \notin {"draw", "update", "store_i"} => HandedOver' = drawn'
           /\ OnItsWay' <=> \/ update' \/ display_pc' \in {"clear", "take", "store_i", "store_r"}
                            \/ pc'[w] \in {"store_w", "announce"}
BY DEF HandedOver, OnItsWay

(* A step that keeps the three observations is one of the mailbox. *)
LEMMA MailKept ==
    ASSUME HandedOver' = HandedOver, content[rbuf].frame = content'[rbuf'].frame,
           OnItsWay' <=> OnItsWay
    PROVE  M!Kept
<1>1. OnItsWay' = OnItsWay
  BY ZenonT(30) DEF OnItsWay
<1>. QED
  BY <1>1 DEF M!Kept

LEMMA MailDraw ==
    ASSUME TypeOK, NoTearInv, FrameOrder, ~raced, ~Overlap', Untouched,
           NEW w \in Writers, DrawSteps(w), raced' = FALSE
    PROVE  FrameOrder' /\ (M!Put \/ M!Kept)
<1>0. /\ ~Overlap /\ Handover /\ triple_buffering
      /\ \A v \in Writers : pc[v] \notin {"store_r", "store_wr"}
      /\ pc[w] \in {"draw", "update", "store_i"} =>
            mine[w] = drawn /\ content[wbuf].frame = drawn
      /\ update \/ display_pc \in {"clear", "take"} \/ pc[w] \in {"store_w", "announce"}
            => content[ibuf].frame = HandedOver
      /\ display_pc \in {"store_i", "store_r"} => content[display_temp].frame = HandedOver
      /\ ~OnItsWay => content[rbuf].frame = HandedOver
      /\ display_pc \in {"take", "store_i", "store_r"} => ~update
  <2>1. ~Overlap /\ Handover
    BY DEF NoTearInv
  <2>2. ASSUME pc[w] \in {"store_w", "announce"} PROVE content[ibuf].frame = HandedOver
    BY <2>2 DEF FrameOrder
  <2>3. update \/ display_pc \in {"clear", "take"} => content[ibuf].frame = HandedOver
    BY DEF FrameOrder
  <2>. QED
    BY <2>1, <2>2, <2>3 DEF FrameOrder
<1>1. \A v \in Writers : v # w => pc[v] = "idle" /\ pc'[v] = "idle"
  BY <1>0 DEF DrawSteps, Overlap, Goto, TypeOK, Writers,
     Clear, Draw, UpdateTake, StoreI, StoreW, Announce, StoreR
<1>2. /\ rbuf \in Buffers /\ wbuf \in Buffers /\ ibuf \in Buffers /\ display_temp \in Buffers
      /\ drawn \in Nat
      /\ pc \in [Writers -> {"idle", "draw", "update", "store_i", "store_w",
                             "announce", "store_r", "store_wr"}]
  BY DEF TypeOK
<1>3. /\ pc[w] \in {"draw", "update", "store_i"} => HandedOver = drawn - 1
      /\ pc[w] \notin {"draw", "update", "store_i"} => HandedOver = drawn
      /\ OnItsWay <=> \/ update \/ display_pc \in {"clear", "take", "store_i", "store_r"}
                      \/ pc[w] \in {"store_w", "announce"}
  BY <1>1, MailIs
<1>4. /\ pc'[w] \in {"draw", "update", "store_i"} => HandedOver' = drawn' - 1
      /\ pc'[w] \notin {"draw", "update", "store_i"} => HandedOver' = drawn'
      /\ OnItsWay' <=> \/ update' \/ display_pc' \in {"clear", "take", "store_i", "store_r"}
                       \/ pc'[w] \in {"store_w", "announce"}
  BY <1>1, MailWillBe
<1>5. ASSUME Clear(w) \/ Draw(w), NEW f \in Nat, NEW p \in {"draw", "update"},
             wbuf \notin {rbuf, ibuf}, wbuf # display_temp \/ display_pc \notin {"store_i", "store_r"},
             pc[w] \notin {"store_w", "announce"}, HandedOver = f - 1,
             content'[wbuf].frame = f, drawn' = f, mine'[w] = f, pc'[w] = p,
             \A b \in Buffers : b # wbuf => content'[b] = content[b]
      PROVE  FrameOrder' /\ M!Kept
  <2>1. UNCHANGED <<rbuf, wbuf, ibuf, update, display_pc, display_temp, triple_buffering>>
    BY <1>5 DEF Clear, Draw, pointers, displayVars, selectVars
  <2>2. /\ content'[rbuf] = content[rbuf] /\ content'[ibuf] = content[ibuf]
        /\ display_pc \in {"store_i", "store_r"} => content'[display_temp] = content[display_temp]
    BY <1>2, <1>5
  <2>3. HandedOver' = HandedOver /\ (OnItsWay' <=> OnItsWay)
    BY <1>3, <1>4, <1>5, <2>1
  <2>4. M!Kept
    BY <2>1, <2>2, <2>3, MailKept
  <2>. QED
    BY <1>0, <1>1, <1>5, <2>1, <2>2, <2>3, <2>4 DEF FrameOrder
<1>6. pc[w] \in {"idle", "draw"} =>
         wbuf \notin {rbuf, ibuf} /\ (wbuf # display_temp \/ display_pc \notin {"store_i", "store_r"})
  BY <1>0, <1>1, <1>2 DEF Handover, Distinct
<1>7. CASE Clear(w)
  <2>1. /\ pc[w] = "idle" /\ drawn' = drawn + 1
        /\ mine'[w] = drawn + 1 /\ pc'[w] = "draw" /\ content'[wbuf].frame = drawn + 1
        /\ \A b \in Buffers : b # wbuf => content'[b] = content[b]
    BY <1>7 DEF Clear, Goto, TypeOK
  <2>2. HandedOver = drawn
    BY <1>3, <2>1
  <2>3. PICK f \in Nat : f = drawn + 1 /\ HandedOver = f - 1
    BY <1>2, <2>2
  <2>. QED
    BY <1>5, <1>6, <1>7, <2>1, <2>3
<1>8. CASE Draw(w)
  <2>1. /\ pc[w] = "draw" /\ drawn' = drawn /\ mine'[w] = drawn
        /\ pc'[w] = "update" /\ content'[wbuf].frame = drawn
        /\ \A b \in Buffers : b # wbuf => content'[b] = content[b]
    BY <1>0, <1>8 DEF Draw, Goto, TypeOK
  <2>2. PICK f \in Nat : f = drawn /\ HandedOver = f - 1
    BY <1>2, <1>3, <2>1
  <2>. QED
    BY <1>5, <1>6, <1>8, <2>1, <2>2
<1>9. ASSUME UpdateTake(w) \/ StoreI(w) \/ StoreW(w) \/ Announce(w) \/ StoreR(w)
      PROVE  FrameOrder' /\ (M!Put \/ M!Kept)
  <2>1. UNCHANGED <<content, mine, drawn, display_pc, display_temp, triple_buffering, rbuf>>
    BY <1>0, <1>9 DEF UpdateTake, StoreI, StoreW, Announce, StoreR, displayVars, selectVars,
       pointers
  <2>2. content[rbuf].frame = content'[rbuf'].frame
    BY <2>1
  <2>3. CASE UpdateTake(w)
    <3>1. pc[w] = "update" /\ pc'[w] = "store_i" /\ UNCHANGED <<rbuf, wbuf, ibuf, update>>
      BY <1>0, <1>2, <2>3 DEF UpdateTake, Goto, pointers
    <3>2. HandedOver' = HandedOver /\ (OnItsWay' <=> OnItsWay)
      BY <1>3, <1>4, <2>1, <3>1
    <3>3. M!Kept
      BY <2>2, <3>2, MailKept
    <3>. QED
      BY <1>0, <1>1, <2>1, <3>1, <3>2, <3>3 DEF FrameOrder
  <2>4. CASE StoreI(w)
    <3>1. pc[w] = "store_i" /\ pc'[w] = "store_w" /\ ibuf' = wbuf /\ UNCHANGED <<rbuf, wbuf, update>>
      BY <1>2, <2>4 DEF StoreI, Goto
    <3>2. HandedOver = drawn - 1 /\ HandedOver' = drawn /\ OnItsWay'
      BY <1>3, <1>4, <2>1, <3>1
    <3>3. HandedOver' = HandedOver + 1
      BY <1>2, <3>2
    <3>4. M!Put
      <4>1. OnItsWay' = TRUE
        BY <3>2, ZenonT(30) DEF OnItsWay
      <4>. QED
        BY <2>2, <3>3, <4>1 DEF M!Put
    <3>5. content'[ibuf'].frame = HandedOver'
      BY <1>0, <2>1, <3>1, <3>2
    <3>6. display_pc \notin {"take", "store_i", "store_r"}
      BY <1>2, <2>1, <3>1 DEF Overlap
    <3>. QED
      BY <1>0, <1>1, <2>1, <3>1, <3>2, <3>4, <3>5, <3>6 DEF FrameOrder
  <2>5. CASE StoreW(w)
    <3>1. pc[w] = "store_w" /\ pc'[w] = "announce" /\ UNCHANGED <<rbuf, ibuf, update>>
      BY <1>0, <1>2, <2>5 DEF StoreW, Goto
    <3>2. HandedOver' = HandedOver /\ (OnItsWay' <=> OnItsWay)
      BY <1>3, <1>4, <2>1, <3>1
    <3>3. M!Kept
      BY <2>2, <3>2, MailKept
    <3>. QED
      BY <1>0, <1>1, <2>1, <3>1, <3>2, <3>3 DEF FrameOrder
  <2>6. CASE Announce(w)
    <3>1. pc[w] = "announce" /\ pc'[w] = "idle" /\ update' /\ UNCHANGED <<rbuf, ibuf, wbuf>>
          /\ display_pc \notin {"take", "store_i", "store_r"}
      BY <1>0, <1>2, <2>6 DEF Announce, Goto, pointers, Overlap
    <3>2. HandedOver' = HandedOver /\ (OnItsWay' <=> OnItsWay)
      BY <1>3, <1>4, <2>1, <3>1
    <3>3. M!Kept
      BY <2>2, <3>2, MailKept
    <3>. QED
      BY <1>0, <1>1, <2>1, <3>1, <3>2, <3>3 DEF FrameOrder
  <2>. QED
    BY <1>0, <1>9, <2>3, <2>4, <2>5, <2>6 DEF StoreR
<1>. QED
  BY <1>7, <1>8, <1>9 DEF DrawSteps

LEMMA MailDisplay ==
    ASSUME TypeOK, NoTearInv, FrameOrder, ~raced, ~Overlap', Untouched, Untouched',
           DisplaySteps \/ Select, raced' = FALSE
    PROVE  FrameOrder' /\ (M!Show \/ M!Kept)
<1>0. /\ ~Overlap /\ triple_buffering
      /\ \A w \in Writers :
            /\ pc[w] \notin {"store_r", "store_wr"}
            /\ pc[w] \in {"draw", "update", "store_i"} =>
                  mine[w] = drawn /\ content[wbuf].frame = drawn
      /\ (\/ update \/ display_pc \in {"clear", "take"}
          \/ \E w \in Writers : pc[w] \in {"store_w", "announce"})
            => content[ibuf].frame = HandedOver
      /\ display_pc \in {"store_i", "store_r"} => content[display_temp].frame = HandedOver
      /\ ~OnItsWay => content[rbuf].frame = HandedOver
      /\ display_pc \in {"take", "store_i", "store_r"} => ~update
  BY DEF NoTearInv, FrameOrder
<1>1. UNCHANGED <<content, pc, mine, drawn, wbuf, triple_buffering>>
  BY DEF TypeOK, DisplaySteps, StartOfFrame, SwapClear, SwapTake, SwapStoreI,
     SwapStoreR, CopyRow, Select, drawVars, pointers, selectVars, Untouched
<1>2. HandedOver' = HandedOver
  BY <1>1 DEF HandedOver
<1>3. CASE StartOfFrame \/ CopyRow \/ SwapClear
  <2>1. UNCHANGED <<rbuf, ibuf, display_temp>> /\ display_pc' \in {"clear", "copy", "row", "take"}
        /\ display_pc \notin {"take", "store_i", "store_r"}
        /\ (display_pc' = "take" => ~update')
        /\ (update' \/ display_pc' \in {"clear", "take"} <=>
               update \/ display_pc \in {"clear", "take"})
    BY <1>3 DEF StartOfFrame, CopyRow, SwapClear, pointers
  <2>2. OnItsWay' <=> OnItsWay
    BY <1>1, <2>1 DEF OnItsWay
  <2>3. M!Kept
    BY <1>1, <1>2, <2>1, <2>2, MailKept
  <2>. QED
    BY <1>0, <1>1, <1>2, <2>1, <2>2, <2>3 DEF FrameOrder
<1>4. CASE SwapTake
  <2>1. /\ UNCHANGED <<rbuf, ibuf, update>> /\ display_temp' = ibuf
        /\ display_pc = "take" /\ display_pc' = "store_i"
    BY <1>4 DEF SwapTake, pointers
  <2>2. content'[ibuf'].frame = HandedOver' /\ content'[display_temp'].frame = HandedOver'
    BY <1>0, <1>1, <1>2, <2>1
  <2>3. OnItsWay' /\ OnItsWay
    BY <2>1 DEF OnItsWay
  <2>4. M!Kept
    BY <1>1, <1>2, <2>1, <2>3, MailKept
  <2>. QED
    BY <1>0, <1>1, <2>1, <2>2, <2>3, <2>4 DEF FrameOrder
<1>5. CASE SwapStoreI
  <2>1. /\ UNCHANGED <<rbuf, display_temp, update>> /\ ibuf' = rbuf
        /\ display_pc = "store_i" /\ display_pc' = "store_r"
    BY <1>5 DEF SwapStoreI
  <2>2. \A w \in Writers : pc[w] \notin {"store_w", "announce"}
    BY <1>0, <2>1 DEF Overlap
  <2>3. OnItsWay' /\ OnItsWay
    BY <2>1 DEF OnItsWay
  <2>4. M!Kept
    BY <1>1, <1>2, <2>1, <2>3, MailKept
  <2>. QED
    BY <1>0, <1>1, <1>2, <2>1, <2>2, <2>3, <2>4 DEF FrameOrder
<1>6. CASE SwapStoreR
  <2>1. /\ UNCHANGED <<ibuf, display_temp, update>> /\ rbuf' = display_temp
        /\ display_pc = "store_r" /\ display_pc' = "copy"
    BY <1>6 DEF SwapStoreR
  <2>2. ~update /\ \A w \in Writers : pc[w] \notin {"store_w", "announce"}
    BY <1>0, <2>1 DEF Overlap
  <2>3. OnItsWay /\ ~OnItsWay'
    BY <1>1, <2>1, <2>2 DEF OnItsWay
  <2>4. content'[rbuf'].frame = HandedOver
    BY <1>0, <1>1, <2>1
  <2>5. M!Show
    <3>1. OnItsWay' = FALSE
      BY <2>3, ZenonT(30) DEF OnItsWay
    <3>. QED
      BY <1>2, <2>3, <2>4, <3>1 DEF M!Show
  <2>. QED
    BY <1>0, <1>1, <1>2, <2>1, <2>2, <2>3, <2>4, <2>5 DEF FrameOrder
<1>7. CASE Select
  BY <1>7 DEF Select, Untouched, TypeOK
<1>. QED
  BY <1>3, <1>4, <1>5, <1>6, <1>7 DEF DisplaySteps

(* The steps of the tasks keep the order of the frames and are steps of    *)
(* the mailbox, as long as it is intact.                                   *)
LEMMA MailStep ==
    TypeOK /\ NoTearInv /\ FrameOrder /\ [Next]_vars => FrameOrder' /\ [M!Next]_M!vars
<1>1. ASSUME FrameOrder, UNCHANGED vars PROVE FrameOrder' /\ UNCHANGED M!vars
  <2>1. UNCHANGED <<rbuf, ibuf, wbuf, update, triple_buffering, content, pc, mine, drawn,
                    display_pc, display_temp, presses, raced>>
    BY <1>1 DEF vars, pointers, drawVars, displayVars, selectVars
  <2>2. UNCHANGED <<HandedOver, OnItsWay>>
    BY <2>1 DEF HandedOver, OnItsWay
  <2>. QED
    BY <1>1, <2>1, <2>2 DEF FrameOrder, Untouched, M!vars
<1>2. ASSUME TypeOK, NoTearInv, FrameOrder, Next, Untouched', ~raced'
      PROVE  FrameOrder' /\ Untouched /\ ~raced /\ (M!Put \/ M!Show \/ M!Kept)
  <2>1. ~raced /\ ~Overlap' /\ raced' = FALSE
    BY <1>2 DEF Next, Overlap, TypeOK
  <2>2. Untouched
    BY <1>2 DEF Next, TypeOK, Untouched, DisplaySteps, DrawSteps, Select, selectVars,
       StartOfFrame, SwapClear, SwapTake, SwapStoreI, SwapStoreR, CopyRow,
       Clear, Draw, UpdateTake, StoreI, StoreW, Announce, StoreR
  <2>. QED
    BY <1>2, <2>1, <2>2, MailDraw, MailDisplay DEF Next
<1>3. ASSUME TypeOK, NoTearInv, FrameOrder, Next PROVE FrameOrder' /\ M!Next
  <2>1. CASE Untouched' /\ ~raced'
    BY <1>2, <1>3, <2>1 DEF M!Next
  <2>2. CASE ~(Untouched' /\ ~raced')
    BY <2>2 DEF FrameOrder, M!Next
  <2>. QED
    BY <2>1, <2>2
<1>. QED
  BY <1>1, <1>3

(* The three buffers of triple buffering are a mailbox for one frame: each *)
(* step of buffer_update and buffer_start_of_frame puts a frame in, shows  *)
(* the newest, or changes nothing, while nobody has changed the mode and   *)
(* no two tasks were in the pointers at once; for every number of frames.  *)
THEOREM BuffersAreMailbox == SafetySpec => ImplementsMailbox
<1>1. Init => FrameOrder /\ M!Init
  <2>1. ASSUME Init PROVE /\ HandedOver = 0 /\ ~OnItsWay /\ content[rbuf].frame = 0
                          /\ Untouched /\ ~raced
    BY <2>1 DEF Init, HandedOver, OnItsWay, Buffers, Writers, Untouched
  <2>2. ASSUME Init PROVE FrameOrder
    BY <2>1, <2>2 DEF Init, FrameOrder, Writers
  <2>3. ASSUME Init PROVE OnItsWay = FALSE /\ (Untouched /\ ~raced) = TRUE
    BY <2>1, <2>3, ZenonT(30) DEF OnItsWay
  <2>. QED
    BY <2>1, <2>2, <2>3 DEF M!Init
<1>. QED
  BY <1>1, MailStep, TypeCorrect, NoTearInvariant, PTL DEF SafetySpec, ImplementsMailbox,
     M!SafetySpec

(* What the mailbox promises, whoever keeps it. *)
LEMMA MailboxIsSound == M!SafetySpec => []M!NothingLost /\ M!NeverGoesBack
<1>. DEFINE last == HandedOver
            shown == content[rbuf].frame
            intact == Untouched /\ ~raced
            Sound == intact => /\ last \in Nat /\ shown \in Nat /\ shown <= last
                               /\ ~OnItsWay => shown = last
<1>1. M!Init => Sound
  BY DEF M!Init
<1>2. Sound /\ [M!Next]_M!vars => Sound' /\ [intact' => shown <= shown']_M!vars
  BY DEF M!Next, M!Put, M!Show, M!Kept, M!vars
<1>3. Sound => M!NothingLost
  BY DEF M!NothingLost
<1>. QED
  BY <1>1, <1>2, <1>3, PTL DEF M!SafetySpec, M!NeverGoesBack

(* With triple buffering the display never goes back to an older frame and *)
(* no frame is lost but to a newer one: when none is on its way, the one   *)
(* shown is the last that was handed over.                                 *)
THEOREM FramesGoForward == SafetySpec => []M!NothingLost /\ M!NeverGoesBack
BY BuffersAreMailbox, MailboxIsSound DEF ImplementsMailbox
===============================================================================
