---------------------------- MODULE EntityValues ----------------------------
(***************************************************************************)
(* EntityValues: an entity of a device.  A poll reads its registers and converts *)
(* them to the value that is published; a command converts a value to registers    *)
(* and writes them.  The converters are number, select, binary and text; numbers   *)
(* are integers here, and floats are left out.                                 *)
(***************************************************************************)
EXTENDS Integers, Sequences, FiniteSets

CONSTANTS
  Byte,       \* values of a byte; 256 in the code
  Entities,   \* entities to explore, see below
  Commands,   \* Commands[c]: the values commanded to an entity with converter c
  Contents    \* what registers may hold

(* An entity has its converter and the number of its registers, and              *)
(*   number:  format, swapBytes, swapWords, multiplier, offset                    *)
(*   select:  options (of the specification) and names (of the language), both       *)
(*            from register contents to names                                   *)
(*   text:    stringlength, swapBytes                                          *)
Word == Byte * Byte

Is32(e) == e.format \in {"signedInt32", "unsignedInt32"}

(* The number of registers is that of getModbusLength, and a commanded text has      *)
(* characters that are written as one byte.  Half of them are characters of ASCII.    *)
ValuesAssumption ==
  /\ Byte \in Nat \ {0, 1}
  /\ \A e \in Entities :
       \/ /\ e.converter = "number"
          /\ e.format \in {"default", "signedInt16", "signedInt32", "unsignedInt32"}
          /\ e.registers = IF Is32(e) THEN 2 ELSE 1
          /\ e.swapBytes \in BOOLEAN /\ e.swapWords \in BOOLEAN
          /\ e.multiplier \in Int /\ e.offset \in Int
       \/ e.converter \in {"select", "binary"} /\ e.registers = 1
       \/ /\ e.converter = "text"
          /\ e.stringlength \in Nat /\ e.registers = (e.stringlength + 1) \div 2
          /\ e.swapBytes \in BOOLEAN
  /\ Commands["number"] \subseteq Int /\ Commands["binary"] \subseteq {"ON", "OFF"}
  /\ Commands["text"] \subseteq Seq(0 .. Byte - 1)

VARIABLES
  entity,     \* the entity explored
  device,     \* its registers
  commanded,  \* <<value>> of the last command, if the registers are still its own
  published   \* <<value>> of the last poll since then

vars == <<entity, device, commanded, published>>

(* The i-th of a set of numbers.                                              *)
Nth(S, i) == CHOOSE n \in S : Cardinality({m \in S : m < n}) = i - 1

(***************************************************************************)
(* Numbers.                                                                 *)
(***************************************************************************)

SwapBytesInRegister(r) == (r % Byte) * Byte + r \div Byte

Swapped(e, registers) ==
  LET rs == IF e.swapBytes THEN [i \in DOMAIN registers |-> SwapBytesInRegister(registers[i])]
            ELSE registers
  IN  IF e.swapWords /\ Is32(e) THEN <<rs[2], rs[1]>> ELSE rs

Range32 == Word * Word

Signed(n, range) == IF n >= range \div 2 THEN n - range ELSE n

(* The number in registers that are in canonical order.                        *)
Raw(e, rs) ==
  CASE e.format = "default" -> rs[1]
    [] e.format = "signedInt16" -> Signed(rs[1], Word)
    [] e.format = "unsignedInt32" -> rs[1] * Word + rs[2]
    [] e.format = "signedInt32" -> Signed(rs[1] * Word + rs[2], Range32)

Multiplier(e) == IF e.multiplier = 0 THEN 1 ELSE e.multiplier

(* Without all of its registers a number of 32 bits is an error, which leaves the   *)
(* entity without a value, as does an entity nothing was read of.                *)
NumberFrom(e, data) ==
  IF Len(data) < e.registers THEN <<>>
  ELSE <<Raw(e, Swapped(e, data)) * Multiplier(e) + e.offset>>

Lowest(e) ==
  CASE e.format = "signedInt16" -> -(Word \div 2)
    [] e.format = "signedInt32" -> -(Range32 \div 2)
    [] OTHER -> 0

Highest(e) ==
  CASE e.format = "default" -> Word - 1
    [] e.format = "signedInt16" -> Word \div 2 - 1
    [] e.format = "unsignedInt32" -> Range32 - 1
    [] e.format = "signedInt32" -> Range32 \div 2 - 1

(* What is written to a buffer loses its fraction.                             *)
Quotient(a, b) ==
  LET q == (IF a < 0 THEN -a ELSE a) \div (IF b < 0 THEN -b ELSE b)
  IN  IF (a < 0) = (b < 0) THEN q ELSE -q

(* Mutant: the multiplier is divided out before the offset is subtracted.         *)
UnscaledFirst(e, v) == Quotient(v, Multiplier(e)) - e.offset

Unscaled(e, v) == Quotient(v - e.offset, Multiplier(e))

(* A buffer takes no number beyond its range, fraction included.                 *)
InRange(e, v) ==
  LET sign == IF Multiplier(e) < 0 THEN -1 ELSE 1
      scaled == sign * (v - e.offset)
      unit == sign * Multiplier(e)
  IN  Lowest(e) * unit <= scaled /\ scaled <= Highest(e) * unit

(* A register beyond its range is refused when it is sent, unless swapping its      *)
(* bytes has cut it.                                                         *)
NumberTo(e, v) ==
  LET n == Unscaled(e, v)
  IN  IF e.format = "default"
      THEN IF e.swapBytes THEN Swapped(e, <<n % Word>>)
           ELSE IF InRange(e, v) THEN <<n>> ELSE <<>>
      ELSE IF ~InRange(e, v) THEN <<>>
      ELSE Swapped(e, IF Is32(e) THEN <<(n % Range32) \div Word, n % Word>> ELSE <<n % Word>>)

(***************************************************************************)
(* Selections, switches and texts.                                            *)
(***************************************************************************)

Options(e) == IF e.options = <<>> THEN e.names ELSE e.options

(* An option nobody has a name for is published as an empty text, or as a message.  *)
SelectFrom(e, data) ==
  IF data = <<>> THEN <<>>
  ELSE IF data[1] \in DOMAIN Options(e) THEN <<Options(e)[data[1]]>> ELSE <<"unknown">>

(* Names are looked up in the language only; an unknown one counts as 0.           *)
SelectTo(e, name) ==
  IF \E r \in DOMAIN e.names : e.names[r] = name
  THEN <<CHOOSE r \in DOMAIN e.names : e.names[r] = name>> ELSE <<0>>

BinaryFrom(data) ==
  IF data = <<>> THEN <<>> ELSE IF data[1] # 0 THEN <<"ON">> ELSE <<"OFF">>

BinaryTo(value) == IF value = "ON" THEN <<1>> ELSE <<0>>

TextRegister(e, r) == IF e.swapBytes THEN SwapBytesInRegister(r) ELSE r

Ascii == 0 .. Byte \div 2 - 1
Foreign == Byte

(* A byte is written for each character, but Buffer.toString reads UTF-8: a byte of    *)
(* ASCII is its character, and a run of other bytes becomes one or more characters      *)
(* that are not ASCII, for which one stands here.                                *)
Decoded(bytes) ==
  LET starts == {k \in DOMAIN bytes : bytes[k] \in Ascii \/ k = 1 \/ bytes[k - 1] \in Ascii}
      first(i) == bytes[Nth(starts, i)]
  IN  [i \in 1 .. Cardinality(starts) |-> IF first(i) \in Ascii THEN first(i) ELSE Foreign]

(* The buffer has two bytes for each character, of which the registers fill the      *)
(* first ones; one register more than a text of even length has counts as 0.  The     *)
(* other bytes are whatever the memory held.  The text ends before the first 0.       *)
TextFrom(e, data, rest) ==
  IF data = <<>> THEN <<>>
  ELSE LET filled == (e.stringlength + 2) \div 2
           register(i) == IF i \in DOMAIN data THEN TextRegister(e, data[i]) ELSE 0
           byte(k) == IF k > 2 * filled THEN rest
                      ELSE IF k % 2 = 1 THEN register((k + 1) \div 2) \div Byte
                      ELSE register(k \div 2) % Byte
           zeros == {k \in 1 .. 2 * e.stringlength : byte(k) = 0}
           last == IF zeros = {} THEN 2 * e.stringlength
                   ELSE (CHOOSE k \in zeros : \A j \in zeros : k <= j) - 1
       IN  <<Decoded([k \in 1 .. last |-> byte(k)])>>

TextTo(e, text) ==
  [i \in 1 .. (Len(text) + 1) \div 2 |->
     TextRegister(e, text[2 * i - 1] * Byte + IF 2 * i <= Len(text) THEN text[2 * i] ELSE 0)]

(***************************************************************************)
(* Polls and commands.                                                       *)
(***************************************************************************)

(* What was read of the registers, without a gap where one was not.               *)
ReadWithout(unread) ==
  LET read == 1 .. entity.registers \ unread
  IN  [i \in 1 .. Cardinality(read) |-> device[Nth(read, i)]]

Poll(unread, rest) ==
  /\ published' =
       LET data == ReadWithout(unread)
       IN  CASE entity.converter = "number" -> NumberFrom(entity, data)
             [] entity.converter = "select" -> SelectFrom(entity, data)
             [] entity.converter = "binary" -> BinaryFrom(data)
             [] entity.converter = "text" -> TextFrom(entity, data, rest)
  /\ UNCHANGED <<entity, device, commanded>>

(* A command without registers is refused.  A text may be shorter or longer than      *)
(* what the entity has.                                                       *)
Command(v) ==
  LET registers == CASE entity.converter = "number" -> NumberTo(entity, v)
                     [] entity.converter = "select" -> SelectTo(entity, v)
                     [] entity.converter = "binary" -> BinaryTo(v)
                     [] entity.converter = "text" -> TextTo(entity, v)
  IN  /\ registers # <<>>
      /\ device' = [i \in DOMAIN device |-> IF i \in DOMAIN registers THEN registers[i] ELSE device[i]]
      /\ commanded' = <<v>>
      /\ published' = <<>>
      /\ UNCHANGED entity

Init ==
  /\ entity \in Entities
  /\ device \in [1 .. entity.registers -> Contents]
  /\ commanded = <<>> /\ published = <<>>

Next ==
  \/ \E unread \in SUBSET (1 .. entity.registers), rest \in {0, 1, Byte - 1} : Poll(unread, rest)
  \/ \E v \in Commands[entity.converter] : Command(v)

Spec == Init /\ [][Next]_vars

(***************************************************************************)
(* Properties.                                                              *)
(***************************************************************************)

Distance(a, b) == IF a < b THEN b - a ELSE a - b

(* A poll publishes what was commanded before (Converter.modbus2mqtt and            *)
(* mqtt2modbus are each other's inverse): a number within its range up to a           *)
(* fraction of the register, even if registers could not be read; an option both      *)
(* tables name alike; ON and OFF; a text of ASCII, of full and even length.  (Other     *)
(* characters are written as one byte each and read as UTF-8: they do not come back.)   *)
CommandsReadBack ==
  commanded # <<>> /\ published # <<>> =>
    LET v == commanded[1] IN
    CASE entity.converter = "number" ->
           InRange(entity, v) => Distance(published[1], v) < Distance(Multiplier(entity), 0)
      [] entity.converter = "select" ->
           LET named == {r \in DOMAIN entity.names : entity.names[r] = v}
           IN  named # {} /\ (\A r \in named : r \in DOMAIN Options(entity) /\ Options(entity)[r] = v)
                 => published[1] = v
      [] entity.converter = "binary" -> published[1] = v
      [] entity.converter = "text" ->
           v \in Seq(Ascii) /\ Len(v) = entity.stringlength /\ Len(v) % 2 = 0
             => published[1] = v \/ Len(published[1]) < Len(v)
=============================================================================
