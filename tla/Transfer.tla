------------------------------ MODULE Transfer ------------------------------
(***************************************************************************)
(* How bits and samples pass between a PLC and its hardware: read_inputs   *)
(* and write_outputs (src/src/vm/plclib.c) move them one by one through    *)
(* dio_read, dio_write, data_read and data_write of the back end           *)
(* (src/src/hw), while the plant goes on changing.  A byte is a number;    *)
(* the plant and the device are bytes too, of which gpiod has wired the    *)
(* first bits alone.  A word, uint64_t, is as wide as all the bytes, and a *)
(* sample of comedi as one byte.                                           *)
(*                                                                         *)
(* A PLC has signals of one kind here.  A file of the simulation holds     *)
(* characters, and sim_fetch may get fewer of them than it wants.  The     *)
(* analog outputs of the simulation, which are written as hexadecimal text *)
(* into a buffer that is too short for most words, are left out.           *)
(***************************************************************************)
EXTENDS Binary

CONSTANTS
    NB,          \* bytes of inputs, or of outputs
    BYTESIZE,
    ASCIISTART,  \* '0', 0x30 of 0x100
    Wired        \* MaxIn and MaxOut of gpiod

VARIABLES
    kind,      \* the back end
    ni, nq,    \* p->ni, p->nq
    nai, naq,  \* p->nai, p->naq: one channel or none
    at,        \* "host", "read", "tasks" or "write"
    n,         \* the next bit or sample of read_inputs or write_outputs
    inputs, outputs,
    raw,       \* p->real_in[0], or p->real_out[0]
    bufIn, bufOut,   \* BufIn or AdcIn, BufOut of the simulation
    plant,     \* what the input pins show, or the characters of the file
    device,    \* what the output pins show, or the line last written to the file
    seen       \* history: values that a bit, or a sample, has had during this
               \* read_inputs

counts == <<kind, ni, nq, nai, naq>>
vars == <<counts, at, n, inputs, outputs, raw, bufIn, bufOut, plant, device, seen>>

Byte == 0 .. NB - 1
Value == 0 .. Power[BYTESIZE] - 1
Pin == 0 .. NB * BYTESIZE - 1
SAMPLE == -1            \* the index of seen for an analog input
WORD == Power[NB * BYTESIZE]
Zeros == [i \in Byte |-> 0]

BitOf(buffer, k) == BitIn(buffer[k \div BYTESIZE], k % BYTESIZE)

Init ==
    /\ kind \in {"gpiod", "comedi", "uspace", "sim", "dry"}
    /\ ni \in {0, NB} /\ nq \in {0, NB} /\ nai \in {0, 1} /\ naq \in {0, 1}
    /\ ni + nq + NB * (nai + naq) = NB /\ (NB = 0 => nai + naq = 0)
    /\ naq > 0 => kind # "sim"
    /\ at = "host" /\ n = 0 /\ raw = 0
    /\ inputs = Zeros /\ outputs = Zeros /\ bufIn = Zeros /\ bufOut = Zeros
    /\ plant = Zeros /\ device = Zeros
    /\ seen = [k \in Pin \cup {SAMPLE} |-> {0}]

-----------------------------------------------------------------------------
(* Reading.                                                                *)

\* sim_fetch takes the digits for numbers; a char is signed, so that the upper
\* half of the characters stay as they are.
Plain(c) == IF ASCIISTART <= c /\ c < Power[BYTESIZE - 1] THEN c - ASCIISTART ELSE c

\* What a simulation reads: the bytes that came, and the old ones after them.
\* Those of the analog inputs stay characters.
SimFetch(count) ==
    bufIn' = [i \in Byte |-> IF i >= count THEN bufIn[i]
                             ELSE IF nai > 0 THEN plant'[i] ELSE Plain(plant'[i])]

Shown(buffer, k) == IF k = SAMPLE THEN buffer[0] ELSE BitOf(buffer, k)

Fetch ==
    \/ /\ kind = "sim" /\ ni + nai > 0
       /\ \E count \in 0 .. NB :
            /\ SimFetch(count)
            /\ seen' = [k \in DOMAIN seen |-> IF k # SAMPLE /\ k \div BYTESIZE < count
                                      THEN {BitOf([i \in Byte |-> Plain(plant'[i])], k)}
                                      ELSE seen[k]]
    \/ /\ kind # "sim" \/ ni + nai = 0
       /\ seen' = [k \in DOMAIN seen |-> {Shown(plant', k)}]
       /\ UNCHANGED bufIn

BeginScan ==
    /\ at = "host"
    /\ at' = "read" /\ n' = 0
    /\ plant' \in IF ni + nai > 0 THEN [Byte -> Value] ELSE {plant}
    /\ Fetch
    /\ UNCHANGED <<counts, inputs, outputs, raw, bufOut, device>>

\* Characters in front of the first 0 of a buffer: strlen.
Reaches(buffer, i) == \A j \in 0 .. i : buffer[j] # 0

GpiodDioRead(k) == IF k < Wired THEN BitOf(plant, k) ELSE 0
ComediDioRead(k) == BitOf(plant, k)
UspaceDioRead(k) == BitOf(plant, k)
SimDioRead(k) == IF Reaches(bufIn, k \div BYTESIZE) THEN BitOf(bufIn, k) ELSE 0
DryDioRead(k) == 0

DioRead(k) ==
    CASE kind = "gpiod"  -> GpiodDioRead(k)
      [] kind = "comedi" -> ComediDioRead(k)
      [] kind = "uspace" -> UspaceDioRead(k)
      [] kind = "sim"    -> SimDioRead(k)
      [] kind = "dry"    -> DryDioRead(k)

\* BUG FORM of Started: a byte of the buffer is not cleared first.
StartedFull(k) == inputs[k \div BYTESIZE]

\* The byte of bit k as it is before that bit is added to it.
Started(k) == IF k % BYTESIZE = 0 THEN 0 ELSE inputs[k \div BYTESIZE]

Or(buffer, k, bit) ==
    [buffer EXCEPT ![k \div BYTESIZE] = @ + (1 - BitOf(buffer, k)) * bit * Power[k % BYTESIZE]]

ReadBit ==
    /\ at = "read" /\ n < ni * BYTESIZE
    /\ inputs' = Or([inputs EXCEPT ![n \div BYTESIZE] = Started(n)], n, DioRead(n))
    /\ n' = n + 1
    /\ UNCHANGED <<counts, at, outputs, raw, bufIn, bufOut, plant, device, seen>>

\* A char of the simulation is signed also where it is a digit of a word.
Signed(c) == IF c < Power[BYTESIZE - 1] THEN c ELSE c - Power[BYTESIZE]

\* The value after so many of the last characters.
Spelled[i \in 0 .. NB] ==
    IF i = 0 THEN 0
    ELSE (Spelled[i - 1] + Signed(bufIn[NB - i]) * Power[BYTESIZE * (i - 1)]) % WORD

GpiodDataRead == raw
ComediDataRead == plant[0]
UspaceDataRead == raw
SimDataRead == IF Reaches(bufIn, 0) THEN Spelled[NB] ELSE 0
DryDataRead == raw

DataRead ==
    CASE kind = "gpiod"  -> GpiodDataRead
      [] kind = "comedi" -> ComediDataRead
      [] kind = "uspace" -> UspaceDataRead
      [] kind = "sim"    -> SimDataRead
      [] kind = "dry"    -> DryDataRead

ReadSample ==
    /\ at = "read" /\ n < nai
    /\ raw' = DataRead
    /\ n' = n + 1
    /\ UNCHANGED <<counts, at, inputs, outputs, bufIn, bufOut, plant, device, seen>>

\* The pins of a running plant; a file waits.
PlantMoves ==
    /\ at = "read" /\ n < ni * BYTESIZE + nai /\ kind # "sim"
    /\ \E i \in Byte, v \in Value : plant' = [plant EXCEPT ![i] = v]
    /\ seen' = [k \in DOMAIN seen |-> seen[k] \cup {Shown(plant', k)}]
    /\ UNCHANGED <<counts, at, n, inputs, outputs, raw, bufIn, bufOut, device>>

EndRead ==
    /\ at = "read" /\ n = ni * BYTESIZE + nai
    /\ at' = "tasks" /\ n' = 0
    /\ UNCHANGED <<counts, inputs, outputs, raw, bufIn, bufOut, plant, device, seen>>

-----------------------------------------------------------------------------
(* Writing.                                                                *)

\* The program, and enc_out.
Tasks ==
    /\ at = "tasks"
    /\ outputs' \in IF nq > 0 THEN [Byte -> Value] ELSE {outputs}
    /\ raw' \in IF naq > 0 THEN 0 .. WORD - 1 ELSE {raw}
    /\ at' = "write"
    /\ UNCHANGED <<counts, n, inputs, bufIn, bufOut, plant, device, seen>>

With(buffer, k, bit) ==
    [buffer EXCEPT ![k \div BYTESIZE] = @ + (bit - BitOf(buffer, k)) * Power[k % BYTESIZE]]

GpiodDioWrite(k, bit) ==
    device' = (IF k < Wired THEN With(device, k, bit) ELSE device) /\ UNCHANGED bufOut
ComediDioWrite(k, bit) == device' = With(device, k, bit) /\ UNCHANGED bufOut

\* BUG FORM of UspaceDioWrite: the port is given the one bit alone.
UspaceDioWriteAlone(k, bit) ==
    device' = [device EXCEPT ![k \div BYTESIZE] = bit * Power[k % BYTESIZE]] /\ UNCHANGED bufOut

\* A port is written as a whole; the bit is in the buffer already.
UspaceDioWrite(k, bit) ==
    device' = [device EXCEPT ![k \div BYTESIZE] = outputs[k \div BYTESIZE]] /\ UNCHANGED bufOut

Coded(q) == (q + ASCIISTART) % Power[BYTESIZE]

\* The byte may follow the characters there are, but leave no gap.
SimDioWrite(k, bit) ==
    LET position == k \div BYTESIZE
    IN /\ bufOut' = IF position = 0 \/ Reaches(bufOut, position - 1)
                    THEN [bufOut EXCEPT ![position] = Coded(outputs[position])]
                    ELSE bufOut
       /\ UNCHANGED device
DryDioWrite(k, bit) == UNCHANGED <<device, bufOut>>

DioWrite(k, bit) ==
    \/ kind = "gpiod"  /\ GpiodDioWrite(k, bit)
    \/ kind = "comedi" /\ ComediDioWrite(k, bit)
    \/ kind = "uspace" /\ UspaceDioWrite(k, bit)
    \/ kind = "sim"    /\ SimDioWrite(k, bit)
    \/ kind = "dry"    /\ DryDioWrite(k, bit)

WriteBit ==
    /\ at = "write" /\ n < nq * BYTESIZE
    /\ DioWrite(n, BitOf(outputs, n))
    /\ n' = n + 1
    /\ UNCHANGED <<counts, at, inputs, outputs, raw, bufIn, plant, seen>>

\* A sample has fewer digits than a word.
ComediDataWrite(word) == device' = [device EXCEPT ![0] = word % Power[BYTESIZE]]
GpiodDataWrite(word) == UNCHANGED device
UspaceDataWrite(word) == UNCHANGED device
DryDataWrite(word) == UNCHANGED device

DataWrite(word) ==
    \/ kind = "gpiod"  /\ GpiodDataWrite(word)
    \/ kind = "comedi" /\ ComediDataWrite(word)
    \/ kind = "uspace" /\ UspaceDataWrite(word)
    \/ kind = "dry"    /\ DryDataWrite(word)

WriteSample ==
    /\ at = "write" /\ n < naq
    /\ DataWrite(raw)
    /\ n' = n + 1
    /\ UNCHANGED <<counts, at, inputs, outputs, raw, bufIn, bufOut, plant, seen>>

\* flush: the simulation writes its buffer as a line.
SimFlush == device' = bufOut

EndWrite ==
    /\ at = "write" /\ n = nq * BYTESIZE + naq
    /\ at' = "host" /\ n' = 0
    /\ IF kind = "sim" THEN SimFlush ELSE UNCHANGED device
    /\ UNCHANGED <<counts, inputs, outputs, raw, bufIn, bufOut, plant, seen>>

Next ==
    \/ BeginScan \/ ReadBit \/ ReadSample \/ PlantMoves \/ EndRead
    \/ Tasks \/ WriteBit \/ WriteSample \/ EndWrite

Spec == Init /\ [][Next]_vars

-----------------------------------------------------------------------------
(* Properties.                                                             *)

Connected(k) == CASE kind = "gpiod" -> k < Wired
                  [] kind = "sim"   -> Reaches(bufIn, k \div BYTESIZE)
                  [] kind = "dry"   -> FALSE
                  [] OTHER          -> TRUE

\* The program finds every input with a value that its pin or channel has had
\* while this scan was reading, or the file gave last, and an input without a
\* pin at 0: though the bits of one byte may be of different moments
\* (read_inputs).  In the simulation all bits from the first byte that is 0 are
\* without a pin, and a word is what its characters spell, the first of them
\* first, as long as none is of the upper half.
InputsAsFound ==
    at = "tasks" =>
        /\ ni > 0 => \A k \in Pin : BitOf(inputs, k) \in IF Connected(k) THEN seen[k] ELSE {0}
        /\ nai > 0 => CASE kind = "comedi" -> raw \in seen[SAMPLE]
                        [] kind = "sim" ->
                              (\A i \in Byte : bufIn[i] \in 1 .. Power[BYTESIZE - 1] - 1) =>
                                  \A i \in Byte :
                                      (raw \div Power[BYTESIZE * (NB - 1 - i)]) % Power[BYTESIZE] = bufIn[i]
                        [] OTHER -> raw = 0

\* While a scan writes, no pin or channel takes any value but the one it is to
\* have, and in the end every one has it; of the simulation, as far as the
\* first byte whose character is 0, and of comedi the last digits of a word
\* (write_outputs gives each bit by itself and the back end may write eight).
WrittenRule ==
    /\ \A k \in Pin :
          BitOf(device', k) # BitOf(device, k) =>
              kind = "sim" \/ BitOf(device', k) = IF naq > 0 THEN BitIn(raw, k)
                                                 ELSE BitOf(outputs, k)
    /\ EndWrite /\ nq > 0 =>
          CASE kind = "gpiod" -> \A k \in Pin : k < Wired => BitOf(device', k) = BitOf(outputs, k)
            [] kind = "sim"   -> \A i \in Byte : (\A j \in 0 .. i - 1 : Coded(outputs[j]) # 0)
                                                  => device'[i] = Coded(outputs[i])
            [] kind = "dry"   -> device' = Zeros
            [] OTHER          -> device' = outputs
    /\ EndWrite /\ naq > 0 =>
          device'[0] = IF kind = "comedi" THEN raw % Power[BYTESIZE] ELSE 0
=============================================================================
