----------------------------- MODULE SensorRead -----------------------------
(***************************************************************************)
(* The sensor board E53_IA1: the light sensor BH1750 and the temperature   *)
(* and humidity sensor SHT30 on one I2C bus                                *)
(* (src/app/Entry/05/01_Smart_Home/sensor/E53_IA1.c and its copy in        *)
(* 02/04_IC2, with the tasks that read them in a loop).                    *)
(*                                                                         *)
(* A transfer may fail, which no one looks at, or arrive with flipped      *)
(* bits, which the checksum is there to notice.  Words, bytes and frames   *)
(* (a word and its checksum) are sets of the positions of their bits.      *)
(***************************************************************************)
EXTENDS Integers, FiniteSets

CONSTANTS
    Words,      \* the words the chips measure, 16 bits each
    MaxBurst    \* the longest error: bits between its first and its last one

uint16_t == 0 .. 65535

ASSUME SensorAssumption == Words \subseteq uint16_t /\ MaxBurst \in 1 .. 8

VARIABLES
    sensorPc,      \* of report_message_task
    board,         \* which copy of the driver runs; does not change
    started,       \* the SHT30 got its command to measure periodically
    data,          \* E53_IA1_Data_TypeDef of the task, words before the conversion
    shown,         \* what the task printed, or put into its report, last
    chip,          \* history: what the SHT30 measured last, and whether it arrived intact
    measured,      \* history: all it measured, for both quantities
    readFailed     \* history: a transfer from the SHT30 failed

sensorVars == <<sensorPc, board, started, data, shown, chip, measured, readFailed>>

----------------------------------------------------------------------------
Unset == -1

Bits(n) == {b \in 0 .. 15 : (n \div (2 ^ b)) % 2 = 1}
Xor(a, b) == (a \ b) \cup (b \ a)
Left(byte) == {b + 1 : b \in byte}
Byte(frame, k) == {b \in 0 .. 7 : b + 8 * k \in frame}

POLYNOMIAL == {0, 4, 5, 8}

\* The checksum as its data sheet defines it: the remainder of the message,
\* whose first eight bits are inverted, modulo the polynomial (external).
Remainder[k \in 0 .. 23] ==
    IF k < 8 THEN {k}
    ELSE LET r == Left(Remainder[k - 1]) IN IF 8 \in r THEN Xor(r, POLYNOMIAL) ELSE r

Frame16(n) ==
    LET message == Xor({b + 8 : b \in Bits(n)}, 16 .. 23)
        checksum == {b \in 0 .. 7 : Cardinality({k \in message : b \in Remainder[k]}) % 2 = 1}
    IN  {b + 8 : b \in Bits(n)} \cup checksum

\* Errors on the bus: any flipped bits, the first and the last at most MaxBurst apart.
Bursts == (UNION {SUBSET (p .. p + MaxBurst - 1) : p \in 0 .. 24 - MaxBurst}) \ {{}}

----------------------------------------------------------------------------
\* One bit of the division, in a uint8_t.
CrcBit(crc) == (IF 7 \in crc THEN Xor(Left(crc), POLYNOMIAL) ELSE Left(crc)) \cap 0 .. 7
CrcByte(crc, byte) ==
    LET twice(c) == CrcBit(CrcBit(c))
    IN  twice(twice(twice(twice(Xor(crc, byte)))))

\* Mutants of the definition that follows.
CheckCrcLowHalf(frame) ==
    CrcByte(CrcByte(0 .. 7, Byte(frame, 2)), Byte(frame, 1)) \cap 0 .. 3 # Byte(frame, 0) \cap 0 .. 3
CheckCrcFromZero(frame) == CrcByte(CrcByte({}, Byte(frame, 2)), Byte(frame, 1)) # Byte(frame, 0)

SHT3x_CheckCrc(frame) == CrcByte(CrcByte(0 .. 7, Byte(frame, 2)), Byte(frame, 1)) # Byte(frame, 0)

\* (data[0] << 8) | data[1]
Value(byte) ==
    LET bit(b) == IF b \in byte THEN 2 ^ b ELSE 0
    IN  bit(0) + bit(1) + bit(2) + bit(3) + bit(4) + bit(5) + bit(6) + bit(7)
Word(frame) == 256 * Value(Byte(frame, 2)) + Value(Byte(frame, 1))

\* u16sT &= ~0x0003, the formula, and the cast to int of the report.
Masked(n) == n - (n % 4)
Truncated(n, d) == IF n < 0 THEN -((-n) \div d) ELSE n \div d
SHT3x_CalcTemperatureC(n) == Truncated(175 * Masked(n) - 45 * 65535, 65535)
SHT3x_CalcRH(n) == Truncated(100 * Masked(n), 65535)
Shown(n, converted) == IF n = Unset THEN Unset ELSE converted

SensorInit ==
    /\ sensorPc = "init" /\ board \in {"smart_home", "ic2"}
    /\ started = FALSE
    /\ data = [Lux |-> 0, Temperature |-> Unset, Humidity |-> Unset]
    /\ shown = [Temperature |-> Unset, Humidity |-> Unset]
    /\ chip = [Temperature |-> 0, Humidity |-> 0, intact |-> FALSE]
    /\ measured = [Temperature |-> {}, Humidity |-> {}]
    /\ readFailed = FALSE

\* Init_SHT30's write may fail, and the chip then never answers.
E53_IA1_Init ==
    /\ sensorPc = "init"
    /\ sensorPc' = "lux"
    /\ started' \in BOOLEAN
    /\ UNCHANGED <<board, data, shown, chip, measured, readFailed>>

\* A failing read leaves the zeros recv_data starts with.
ReadLux ==
    /\ sensorPc = "lux"
    /\ sensorPc' = "sht30"
    /\ \E n \in Words \cup {0} : data' = [data EXCEPT !.Lux = (n * 10) \div 12]
    /\ UNCHANGED <<board, started, shown, chip, measured, readFailed>>

\* What the code makes of a frame in its buffer, by what the chip sent: the
\* frame as sent, with every error on the bus, or what a buffer nobody set
\* may hold.
Received(frame) == IF SHT3x_CheckCrc(frame) THEN Unset ELSE Word(frame)
Intact  == [n \in Words |-> Received(Frame16(n))]
Damaged == [n \in Words |-> {Received(Xor(Frame16(n), e)) : e \in Bursts}]
Leftover == {Received(Frame16(n)) : n \in Words \cup {4}} \cup {Received(Xor(Frame16(4), {0}))}

\* The value is kept when the checksum is wrong.
Take(t, h) ==
    data' = [data EXCEPT !.Temperature = IF t = Unset THEN @ ELSE t,
                         !.Humidity    = IF h = Unset THEN @ ELSE h]

\* The transfer from the SHT30 (IoTI2cWriteread).
ReadSHT30 ==
    /\ started
    /\ \E t, h \in Words :
           /\ \/ Take(Intact[t], Intact[h]) /\ chip' = [Temperature |-> t, Humidity |-> h, intact |-> TRUE]
              \/ /\ \E x \in Damaged[t] \cup {Intact[t]}, y \in Damaged[h] \cup {Intact[h]} : Take(x, y)
                 /\ chip' = [Temperature |-> t, Humidity |-> h, intact |-> FALSE]
           /\ measured' = [Temperature |-> measured.Temperature \cup {t},
                           Humidity |-> measured.Humidity \cup {h}]
    /\ UNCHANGED readFailed

ReadFails ==
    /\ \E t, h \in Leftover : Take(t, h)
    /\ chip' = [chip EXCEPT !.intact = FALSE]
    /\ readFailed' = TRUE
    /\ UNCHANGED measured

Read(copy) ==
    /\ sensorPc = "sht30" /\ board = copy
    /\ ReadSHT30 \/ ReadFails
    /\ sensorPc' = "shown"
    /\ shown' = [Temperature |-> Shown(data'.Temperature, SHT3x_CalcTemperatureC(data'.Temperature)),
                 Humidity |-> Shown(data'.Humidity, SHT3x_CalcRH(data'.Humidity))]
    /\ UNCHANGED <<board, started>>

E53_IA1_Read_Data == Read("smart_home")
IC2_Read_Data == Read("ic2")

\* The loops: sleep, and read again.
SensorLoop ==
    /\ sensorPc = "shown"
    /\ sensorPc' = "lux"
    /\ UNCHANGED <<board, started, data, shown, chip, measured, readFailed>>

SensorNext == E53_IA1_Init \/ ReadLux \/ E53_IA1_Read_Data \/ IC2_Read_Data \/ SensorLoop

(* As long as no transfer failed, the temperature and the humidity are     *)
(* unset or words the chip has measured for that quantity: the checksum    *)
(* keeps out every burst of up to MaxBurst bits, whatever was read before, *)
(* in whichever of the three bytes (E53_IA1.c:131 and 212).                *)
OnlyMeasured ==
    ~readFailed => /\ data.Temperature \in {Unset} \cup measured.Temperature
                   /\ data.Humidity \in {Unset} \cup measured.Humidity

(* After an intact transfer both shown values are the ones just measured,  *)
(* converted: the checksum refuses no good word, and an old value is kept  *)
(* only when the transfer was not intact.                                  *)
FreshWhenIntact ==
    sensorPc = "shown" /\ chip.intact =>
        /\ shown.Temperature = SHT3x_CalcTemperatureC(chip.Temperature)
        /\ shown.Humidity = SHT3x_CalcRH(chip.Humidity)
=============================================================================
