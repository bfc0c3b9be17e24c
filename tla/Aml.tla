-------------------------------- MODULE Aml --------------------------------
(***************************************************************************)
(* The AML interpreter, src/modules/acpi/aml.  It runs under one mutex      *)
(* (aml.c), so that its state is a record s that every operation maps to a  *)
(* new one:                                                                *)
(*   objs   the objects by their id, the root being 1; 0 is NULL,           *)
(*   ovp    the overlays, each with its parent; 1 is the global one,        *)
(*   mtx    mutexStack,                                                     *)
(*   mem    the bytes of the operation regions,                             *)
(*   patch  the list of unresolved references,                              *)
(*   ok, v  whether the operation succeeded, and its result.                *)
(*                                                                         *)
(* The first part are the objects and the operations on their data          *)
(* (object.c, namespace.c, runtime/), the second the terms and what running *)
(* them does (encoding/, runtime/method.c, runtime/evaluate.c).  A term is  *)
(* a tuple of its opcode and its parts instead of their bytes:              *)
(* <<"Add", a, b, t>>.  The context of a term is the state s, whose last    *)
(* frame is that of the method or table being run, and the object that is   *)
(* the current scope.  A package has at most as many elements as it says,   *)
(* and a method is called with as many terms as it takes: the reader would  *)
(* take the rest for terms of their own.                                    *)
(*                                                                         *)
(* The last part is the interpreter as the rest of the kernel sees it:      *)
(* aml.c and predefined.c load the tables, one after the other, and patch   *)
(* up the references that were left open; then objects are evaluated, each  *)
(* call under bigMutex.  Collect frees what the reference counts of the     *)
(* code free: an object that is not named and that no object refers to.     *)
(***************************************************************************)
EXTENDS Integers, Sequences, SequencesExt, Bitwise

CONSTANT IntBytes   \* aml_integer_byte_size(), 4 or 8 in the code

Null == 0
RootId == 1
Global == 1
IntBits == 8 * IntBytes
Ones == 2^IntBits - 1

Namespaces == {"device", "processor", "method", "thermalZone", "powerResource", "scope"}
DataRef == {"integer", "string", "buffer", "package", "ref"}
Computational == {"integer", "string", "buffer"}

Object(t, x) == [type |-> t, val |-> x, exc |-> FALSE, name |-> "none", parent |-> Null, ov |-> 0]
Type(s, o) == s.objs[o].type
Val(s, o) == s.objs[o].val
Named(s, o) == s.objs[o].ov # 0

Fail(s) == [s EXCEPT !.ok = FALSE, !.v = Null]
Return(s, x) == [s EXCEPT !.v = x]
Only(results) == CHOOSE r \in results : TRUE
Finally(s, F(_)) == Only({F(r) : r \in {s}})
Then(s, F(_)) == Only({IF r.ok THEN F(r) ELSE r : r \in {s}})

----------------------------------------------------------------------------
(* Objects.                                                                *)

Create(s, t, x) ==
    LET id == Min((1 .. Cardinality(DOMAIN s.objs) + 1) \ DOMAIN s.objs)
    IN  [s EXCEPT !.objs = (id :> Object(t, x)) @@ @, !.v = id]

Children(s, o) == {c \in DOMAIN s.objs : s.objs[c].parent = o}

Unname(s, gone) ==
    [s EXCEPT !.objs = [o \in DOMAIN @ |->
        IF o \in gone THEN [@[o] EXCEPT !.parent = Null, !.ov = 0, !.name = "none"] ELSE @[o]]]

Clear(s, o) ==
    LET r == IF Type(s, o) \in Namespaces THEN Unname(s, Children(s, o)) ELSE s
    IN  [r EXCEPT !.objs[o].type = "uninit", !.objs[o].val = 0,
                  !.patch = SelectSeq(@, LAMBDA u : u # o)]

Set(s, o, t, x) ==
    IF Type(s, o) = t /\ t \in {"integer", "string", "buffer", "ref"}
    THEN [s EXCEPT !.objs[o].val = x]
    ELSE [Clear(s, o) EXCEPT !.objs[o].type = t, !.objs[o].val = x]

SetInteger(s, o, n) == Set(s, o, "integer", n % 2^IntBits)

\* strlen() ends a string at its first NUL
CString(str) ==
    LET nul == SelectInSeq(str, LAMBDA c : c = 0)
    IN  IF nul = 0 THEN str ELSE SubSeq(str, 1, nul - 1)

SetString(s, o, str) == Set(s, o, "string", CString(str))

RECURSIVE SetElements(_, _, _)
SetElements(s, o, n) ==
    IF Len(Val(s, o)) = n THEN s
    ELSE LET c == Create(s, "uninit", 0)
         IN  SetElements([c EXCEPT !.objs[o].val = Append(@, c.v)], o, n)

SetPackage(s, o, n) == SetElements(Set(Clear(s, o), o, "package", <<>>), o, n)

RECURSIVE Traverse(_, _)
Traverse(s, o) == IF o # Null /\ Type(s, o) = "alias" THEN Traverse(s, Val(s, o)) ELSE o

SetUnresolved(s, o, path, from, callback) ==
    [Set(s, o, "unresolved", [path |-> path, from |-> from, callback |-> callback])
        EXCEPT !.patch = Append(@, o)]

----------------------------------------------------------------------------
(* Bits: an integer or the bytes of a buffer or string, lowest bit first.  *)

Slice(n, at, size) == (n \div 2^at) % 2^size
Replace(n, at, size, x) == n + ((x % 2^size) - Slice(n, at, size)) * 2^at

Bytes(n, count) == [i \in 1 .. count |-> Slice(n, 8 * (i - 1), 8)]
RECURSIVE Number(_)
Number(bytes) == IF bytes = <<>> THEN 0 ELSE Head(bytes) + 256 * Number(Tail(bytes))

\* aml_object_get_bits_at(): what lies past the end reads as zero
GetBits(s, o, at, size) ==
    LET bytes == IF Type(s, o) = "integer" THEN Bytes(Val(s, o), IntBytes) ELSE Val(s, o)
        first == at \div 8
        window == [i \in 1 .. (size + 15) \div 8 |->
                       IF first + i <= Len(bytes) THEN bytes[first + i] ELSE 0]
    IN  Slice(Number(window), at % 8, size)

\* aml_object_set_bits_at(): what lies past the end is dropped
SetBits(s, o, at, size, x) ==
    LET bits == IF Type(s, o) = "integer" THEN IntBits ELSE 8 * Len(Val(s, o))
        width == Min({size, bits - at})
        Byte(i) == LET low == Max({at, 8 * (i - 1)})
                       high == Min({at + width, 8 * i})
                   IN  IF high <= low THEN Val(s, o)[i]
                       ELSE Replace(Val(s, o)[i], low - 8 * (i - 1), high - low,
                                    Slice(x, low - at, high - low))
    IN  IF at >= bits THEN s
        ELSE IF Type(s, o) = "integer"
             THEN [s EXCEPT !.objs[o].val = Replace(@, at, width, x)]
             ELSE [s EXCEPT !.objs[o].val = [i \in DOMAIN @ |-> Byte(i)]]

----------------------------------------------------------------------------
(* Mutexes.                                                                *)

SyncLevel(s) == IF s.mtx = <<>> THEN 0 ELSE Last(s.mtx).sync

Acquire(s, id, sync) ==
    IF sync < SyncLevel(s) THEN Fail(s)
    ELSE [s EXCEPT !.mtx = Append(@, [id |-> id, sync |-> sync])]

Release(s, id) ==
    IF s.mtx = <<>> \/ Last(s.mtx).id # id THEN Fail(s)
    ELSE [s EXCEPT !.mtx = Front(@)]

\* newMutexId only counts up; an id that nothing holds is as good as a new one
NewMutexId(s) ==
    LET held == {s.mtx[i].id : i \in DOMAIN s.mtx}
                \cup {Val(s, o).id : o \in {p \in DOMAIN s.objs :
                                              Type(s, p) \in {"mutex", "method"}}}
    IN  Min((1 .. Cardinality(held) + 1) \ held)

SetMutex(s, o, sync) ==
    IF sync > 15 THEN Fail(s) ELSE Set(s, o, "mutex", [sync |-> sync, id |-> NewMutexId(s)])

----------------------------------------------------------------------------
(* Fields: bits of an operation region or of a buffer.  A field unit is    *)
(* [kind, region, index, data, bank, value, access, lock, update, at, size].*)

CONSTANT GlobalLock   \* the mutex object \_GL

\* The bits of one object copied to another in chunks of ChunkBits, 8 times
\* AML_BUFFER_FIELD_TEMP_SIZE in the code
ChunkBits == 16
RECURSIVE CopyBits(_, _, _, _, _, _)
CopyBits(s, from, fromAt, to, toAt, size) ==
    LET chunk == Min({size, ChunkBits})
    IN  IF size = 0 THEN s
        ELSE CopyBits(SetBits(s, to, toAt, chunk, GetBits(s, from, fromAt, chunk)),
                      from, fromAt + chunk, to, toAt + chunk, size - chunk)

\* A field that fits into an integer is one, any other is a buffer
Empty(s, out, size) ==
    LET bytes == (size + 7) \div 8
    IN  IF bytes > IntBytes THEN Set(s, out, "buffer",
            [i \in 1 .. bytes |-> 0]) ELSE SetInteger(s, out, 0)

BufferFieldLoad(s, f, out) == CopyBits(Empty(s, out, f.size), f.target, f.at, out, 0, f.size)

BufferFieldStore(s, f, in) ==
    IF Type(s, in) \notin {"buffer", "integer"} THEN Fail(s)
    ELSE CopyBits(s, in, 0, f.target, f.at, f.size)

\* aml_get_access_size(); MaxAccess is what the ports and the PCI space take at once
MaxAccess == 32
AccessSize(bits, access, space) ==
    CASE access = "byte" -> 8
      [] access = "word" -> 16
      [] access = "any" ->
           LET round == 2 ^ (CHOOSE k \in 0 .. bits : 2^k >= bits /\ (k = 0 \/ 2^(k - 1) < bits))
           IN  Max({8, Min({round, IF space = "memory" THEN IntBits ELSE MaxAccess})})

Spaces == {"memory", "io", "pci"}

\* The bytes of a region at an address; _ADR, _BBN and _SEG are looked up with the
\* name in the place of the number of names, so that none of them is ever found
RegionRead(s, region, address, size) ==
    IF Val(s, region).space \notin Spaces THEN Fail(s)
    ELSE Return(s,
                Number([i \in 1 .. size \div 8 |-> s.mem[Val(s, region).space][address + i - 1]]))

RegionWrite(s, region, address, size, x) ==
    LET space == Val(s, region).space
        Cell(a) == IF a \in address .. address + size \div 8 - 1
                   THEN Slice(x, 8 * (a - address), 8) ELSE s.mem[space][a]
    IN  IF space \notin Spaces THEN Fail(s)
        ELSE [s EXCEPT !.mem[space] = [a \in DOMAIN @ |-> Cell(a)]]

RECURSIVE FieldUnitAccess(_, _, _, _)
RECURSIVE FieldLoop(_, _, _, _, _, _, _)

FieldUnitStore(s, f, in) ==
    IF Type(s, in) \notin {"integer", "buffer"} THEN Fail(s)
    ELSE FieldUnitAccess(s, f, in, "write")

FieldUnitLoad(s, f, out) == FieldUnitAccess(Empty(s, out, f.size), f, out, "read")

FieldReadAt(s, f, size, byte) ==
    IF f.kind # "index"
    THEN RegionRead(s, f.region, Val(s, f.region).offset + byte, size)
    ELSE Then(Create(s, "integer", byte % 2^IntBits), LAMBDA temp :
             Then(FieldUnitStore(temp, Val(s, f.index), temp.v), LAMBDA r :
                 Then(FieldUnitLoad(r, Val(s, f.data), temp.v),
                      LAMBDA d : Return(d, Val(d, temp.v)))))

FieldWriteAt(s, f, size, byte, x) ==
    IF f.kind # "index"
    THEN RegionWrite(s, f.region, Val(s, f.region).offset + byte, size, x)
    ELSE Then(Create(s, "integer", byte % 2^IntBits), LAMBDA temp :
             Then(FieldUnitStore(temp, Val(s, f.index), temp.v), LAMBDA r :
                 FieldUnitStore(SetInteger(r, temp.v, x), Val(s, f.data), temp.v)))

\* What an access starts from: what is there, or the update rule of the field
FieldOld(s, f, dir, size, byte) ==
    IF dir = "read" \/ f.update = "preserve" THEN FieldReadAt(s, f, size, byte)
    ELSE Return(s, IF f.update = "ones" THEN 2^size - 1 ELSE 0)

\* One access of aml_field_unit_access(), and the ones after it
FieldLoop(s, f, data, dir, size, pos, byte) ==
    LET at == (f.at + pos) % size
        bits == Min({f.size - pos, size - at})
    IN  IF pos >= f.size THEN s
        ELSE Then(Then(FieldOld(s, f, dir, size, byte), LAMBDA r :
                      IF dir = "read" THEN SetBits(r, data, pos, bits, Slice(r.v, at, bits))
                      ELSE FieldWriteAt(r, f, size, byte,
                                        Replace(r.v, at, bits, GetBits(r, data, pos, bits)))),
                  LAMBDA r : FieldLoop(r, f, data, dir, size, pos + bits, byte + size \div 8))

SelectBank(s, f) ==
    IF f.kind # "bank" THEN s
    ELSE Then(Create(s, "integer", f.value), LAMBDA c : FieldUnitStore(c, Val(c, f.bank), c.v))

FieldUnitAccess(s, f, data, dir) ==
    LET gl == Val(s, GlobalLock)
        space == Val(s, IF f.kind = "index" THEN Val(s, f.data).region ELSE f.region).space
        size == AccessSize(f.size, f.access, space)
        unlock(r) == [Release([r EXCEPT !.ok = TRUE], gl.id) EXCEPT !.ok = @ /\ r.ok]
    IN  Then(IF f.lock THEN Acquire(s, gl.id, gl.sync) ELSE s,
             LAMBDA locked :
               Finally(Then(SelectBank(locked, f), LAMBDA r :
                         FieldLoop(r, f, data, dir, size, 0, (f.at - (f.at % size)) \div 8)),
                       LAMBDA r : IF f.lock THEN unlock(r) ELSE r))

-----------------------------------------------------------------------------
(* Copying, converting, storing, comparing and joining the objects:          *)
(* runtime/copy.c, convert.c, store.c, compare.c, mid.c, concat.c.  A string *)
(* is a sequence of character codes.                                         *)

RECURSIVE Copy(_, _, _)
RECURSIVE CopyElements(_, _, _, _)

\* aml_copy_data_and_type()
Copy(s, src, dest) ==
    LET o == s.objs[src]
        copied == CASE o.type = "string" -> SetString(s, dest, o.val)
                    [] o.type = "package"
                          -> CopyElements(SetPackage(s, dest, Len(o.val)), src, dest, 1)
                    [] OTHER -> Set(s, dest, o.type, o.val)
    IN  IF o.type \notin DataRef THEN Fail(s)
        ELSE Then(copied, LAMBDA r : [r EXCEPT !.objs[dest].exc = o.exc])

CopyElements(s, src, dest, i) ==
    IF i > Len(Val(s, src)) THEN s
    ELSE LET c == Copy(s, Val(s, src)[i], Val(s, dest)[i])
         IN  IF c.ok THEN CopyElements(c, src, dest, i + 1) ELSE Clear(c, dest)

----------------------------------------------------------------------------
(* Conversions.                                                            *)

HexDigit(d) == IF d < 10 THEN 48 + d ELSE 55 + d
HexValue(c) == CASE c \in 48 .. 57 -> c - 48 [] c \in 97 .. 102 -> c - 87
                 [] c \in 65 .. 70 -> c - 55 [] OTHER -> 16

ByteToHex(b) == <<HexDigit(b \div 16), HexDigit(b % 16)>>

\* The number at the head of a string, as far as the digits of the base go
RECURSIVE Digits(_, _, _)
Digits(str, base, value) ==
    IF str = <<>> \/ HexValue(Head(str)) >= base THEN value
    ELSE Digits(Tail(str), base, (value * base + HexValue(Head(str))) % 2^IntBits)

RECURSIVE Decimal(_)
Decimal(n) == IF n < 10 THEN <<48 + n>> ELSE Append(Decimal(n \div 10), 48 + (n % 10))

LowerDigit(d) == IF d < 10 THEN 48 + d ELSE 87 + d
RECURSIVE Hex(_)
Hex(n) == IF n < 16 THEN <<LowerDigit(n)>> ELSE Append(Hex(n \div 16), LowerDigit(n % 16))

\* The bytes in hexadecimal with a separator between two of them
Spell(bytes, sep) ==
    FlattenSeq([i \in DOMAIN bytes |-> IF i < Len(bytes) THEN Append(ByteToHex(bytes[i]), sep)
                                       ELSE ByteToHex(bytes[i])])

BufferToInteger(bytes) == Number(SubSeq(bytes, 1, Min({Len(bytes), IntBytes})))
StringToInteger(str) == Digits(SubSeq(str, 1, Min({Len(str), 2 * IntBytes})), 16, 0)

\* A buffer that is converted to keeps its length
IntegerToBuffer(s, n, dest) ==
    LET length == IF Type(s, dest) = "buffer" THEN Len(Val(s, dest)) ELSE IntBytes
    IN  Set(s, dest, "buffer", [i \in 1 .. length |-> IF i <= IntBytes
                                                      THEN Slice(n, 8 * (i - 1), 8) ELSE 0])

IntegerToString(s, n, dest) == Set(s, dest, "string",
        FlattenSeq(Reverse([i \in 1 .. IntBytes |-> ByteToHex(Bytes(n, IntBytes)[i])])))

StringToBuffer(s, str, dest) ==
    LET old == IF Type(s, dest) = "buffer" THEN Val(s, dest) ELSE [i \in 1 .. Len(str) + 1 |-> 0]
    IN  Set(s, dest, "buffer", [i \in DOMAIN old |-> IF i = Len(old) THEN 0
                                  ELSE IF i <= Len(str) THEN str[i] ELSE old[i]])

\* The converters of a type in the order in which they are tried
Converters(t) ==
    CASE t = "buffer" -> <<"bufferField", "integer", "string", "debug">>
      [] t = "integer" -> <<"buffer", "bufferField", "fieldUnit", "string", "debug">>
      [] t = "package" -> <<"debug">>
      [] t = "string" -> <<"integer", "buffer", "debug">>
      [] OTHER -> <<>>

ConvertTo(s, src, dest, t) ==
    LET x == Val(s, src)
    IN  CASE t = "debug" -> s
          [] t = "bufferField" -> BufferFieldStore(s, Val(s, dest), src)
          [] t = "fieldUnit" -> FieldUnitStore(s, Val(s, dest), src)
          [] t = "integer" -> SetInteger(s, dest, IF Type(s,
                  src) = "buffer" THEN BufferToInteger(x)
                                                  ELSE StringToInteger(x))
          [] t = "string" -> IF Type(s, src) = "buffer" THEN Set(s, dest, "string", Spell(x, 32))
                             ELSE IntegerToString(s, x, dest)
          [] t = "buffer" -> IF Type(s, src) = "integer" THEN IntegerToBuffer(s, x, dest)
                             ELSE StringToBuffer(s, x, dest)

RECURSIVE Convert(_, _, _, _)
\* aml_convert(): a field is read first; a converter that needs a field as its
\* destination passes to the next one
Convert(s, src, dest, allowed) ==
    LET type == Type(s, src)
        field == type \in {"fieldUnit", "bufferField"}
        temp == Create(s, "uninit", 0)
        loaded == IF type = "fieldUnit" THEN FieldUnitLoad(temp, Val(s, src), temp.v)
                  ELSE BufferFieldLoad(temp, Val(s, src), temp.v)
        usable == SelectSeq(Converters(type), LAMBDA t :
                      t \in allowed /\ (t \in {"bufferField", "fieldUnit"} => Type(s, dest) = t))
    IN  CASE type = "uninit" -> Fail(s)
          [] field -> Then(loaded, LAMBDA r :
                               IF Type(r, temp.v) \in allowed THEN Copy(r, temp.v, dest)
                               ELSE Convert(r, temp.v, dest, allowed))
          [] ~field /\ type \in allowed
            /\ Type(s, dest) \in {type, "uninit"} -> Copy(s, src, dest)
          [] OTHER -> IF usable = <<>> THEN Fail(s) ELSE ConvertTo(s, src, dest, Head(usable))

RECURSIVE ConvertSource(_, _, _)
\* aml_convert_source() without a destination: the object itself where it will do
ConvertSource(s, src, allowed) ==
    LET new == Create(s, "uninit", 0)
    IN  CASE src = Null \/ Type(s, src) = "uninit" -> Fail(s)
          [] src # Null /\ Type(s, src) \in {"arg", "local"}
                -> ConvertSource(s, Val(s, src), allowed)
          [] src # Null /\ Type(s, src) \in allowed -> Return(s, src)
          [] OTHER -> Then(Convert(new, src, new.v, allowed), LAMBDA r : Return(r, new.v))

\* The ways to write an object call each other through this one, by their names
RECURSIVE Put(_, _, _, _)

\* An argument that holds a reference passes the value on to what it refers to
StoreArg(s, src, arg) ==
    LET new == Create(s, "uninit", 0)
        to == Val(s, arg)
    IN  CASE to = Null -> Put("copy", [new EXCEPT !.objs[arg].val = new.v], src, new.v)
          [] to # Null /\ Type(s, to) = "ref" -> Put("copyObject", s, src, Val(s, to))
          [] OTHER -> Put("copy", s, src, to)

\* aml_convert_result(): a named object of a data type takes the type of the result
ConvertResult(s, result, target) ==
    CASE Type(s, result) = "uninit" \/ Type(s, target) = "uninit" -> Fail(s)
      [] Type(s, result) # "uninit"
        /\ Type(s, target) \in {"arg", "local"} -> Put("store", s, result, target)
      [] Type(s, result) # "uninit"
        /\ Type(s, target) \in DataRef -> Put("copy", s, result, target)
      [] OTHER -> Put("convert", s, result, target)

Store(s, src, dest) ==
    LET type == Type(s, dest)
    IN  CASE dest = Null -> s
          [] dest # Null /\ type = "arg" -> Put("arg", s, src, dest)
          [] dest # Null /\ type = "local" -> Put("copy", s, src, Val(s, dest))
          [] dest # Null /\ type \notin {"arg", "local"}
                 /\ (type \in {"fieldUnit", "bufferField"} \/ Named(s, dest))
                       -> Put("result", s, src, dest)
          [] dest # Null /\ type = "debug" /\ ~Named(s, dest) -> Put("convert", s, src, dest)
          [] OTHER -> Put("copy", s, src, dest)

CopyObject(s, src, dest) ==
    LET type == Type(s, dest)
    IN  CASE Type(s, src) = "uninit" -> Fail(s)
          [] src = dest -> s
          [] src # dest /\ type = "arg" -> Put("arg", s, src, dest)
          [] src # dest /\ type = "local" -> Put("copy", s, src, Val(s, dest))
          [] src # dest /\ type = "fieldUnit" -> FieldUnitStore(s, Val(s, dest), src)
          [] src # dest /\ type = "bufferField" -> BufferFieldStore(s, Val(s, dest), src)
          [] src # dest /\ type \notin {"arg", "local", "fieldUnit", "bufferField"}
            /\ Named(s, dest) ->
                 Put("result", s, src, dest)
          [] OTHER -> IF type = "uninit" THEN Put("copy", s, src, dest) ELSE Fail(s)

Put(how, s, src, dest) ==
    CASE how = "store" -> Store(s, src, dest)
      [] how = "copyObject" -> CopyObject(s, src, dest)
      [] how = "arg" -> StoreArg(s, src, dest)
      [] how = "result" -> ConvertResult(s, src, dest)
      [] how = "copy" -> Copy(s, src, dest)
      [] how = "convert" -> Convert(s, src, dest, {Type(s, dest)})

----------------------------------------------------------------------------
(* The explicit conversions: each leaves an object of its own type alone.  *)

ToBuffer(s, src) ==
    LET new == Create(s, "uninit", 0)
        x == Val(s, src)
    IN  CASE Type(s, src) = "buffer" -> Return(s, src)
          [] Type(s, src) = "integer" -> IntegerToBuffer(new, x, new.v)
          [] Type(s, src) = "string" -> StringToBuffer(new, x, new.v)
          [] OTHER -> Fail(s)

\* The characters of a buffer are copied from the object that is to hold them
\* and not from where they were written: its reference count, which is 1, and
\* the fields after it, which are zero
DecimalLength(bytes) == FoldLeft(LAMBDA n, b : n + Len(Decimal(b)) + 1, 0, bytes) - 1
ToDecimalString(s, src) ==
    LET x == Val(s, src)
    IN  CASE Type(s, src) = "string" -> Return(s, src)
          [] Type(s, src) = "integer" -> Create(s, "string", Decimal(x))
          [] Type(s, src) = "buffer" ->
                 Create(s, "string", IF x = <<>> THEN <<>>
                                     ELSE [i \in 1 .. DecimalLength(x) |-> IF i = 1 THEN 1 ELSE 0])
          [] OTHER -> Fail(s)

ToHexString(s, src) ==
    LET x == Val(s, src)
    IN  CASE Type(s, src) = "string" -> Return(s, src)
          [] Type(s, src) = "integer" -> Create(s, "string", Hex(x))
          [] Type(s, src) = "buffer" -> Create(s, "string", Spell(x, 44))
          [] OTHER -> Fail(s)

ToInteger(s, src) ==
    LET x == Val(s, src)
        hex == Len(x) > 2 /\ x[1] = 48 /\ x[2] \in {120, 88}
    IN  CASE Type(s, src) = "integer" -> Return(s, src)
          [] Type(s, src) = "string" ->
                 IF x = <<>> THEN Fail(s)
                 ELSE Create(s, "integer", IF hex THEN Digits(SubSeq(x, 3, Len(x)), 16, 0)
                                           ELSE Digits(x, 10, 0))
          [] Type(s, src) = "buffer" -> Create(s, "integer", BufferToInteger(x))
          [] OTHER -> Fail(s)

RECURSIVE Bcd(_, _)
\* As many decimal digits as the integer has nibbles
Bcd(n, nibbles) == IF n = 0 \/ nibbles = 0 THEN 0 ELSE (n % 10) + 16 * Bcd(n \div 10, nibbles - 1)

----------------------------------------------------------------------------
(* Comparing and joining.                                                  *)

RECURSIVE Lexically(_, _)
Lexically(a, b) ==
    CASE a = <<>> \/ b = <<>> -> Len(a) - Len(b)
      [] OTHER -> IF Head(a) # Head(b) THEN Head(a) - Head(b) ELSE Lexically(Tail(a), Tail(b))

\* Objects of two types, and the logical operations on anything but integers, are false
Compare(s, a, b, op) ==
    LET x == Val(s, a)
        y == Val(s, b)
        difference == IF Type(s, a) = "integer" THEN x - y ELSE Lexically(x, y)
    IN  /\ Type(s, a) = Type(s, b)
        /\ Type(s, a) \in Computational
        /\ CASE op = "and" -> Type(s, a) = "integer" /\ x # 0 /\ y # 0
             [] op = "or" -> Type(s, a) = "integer" /\ (x # 0 \/ y # 0)
             [] op = "equal" -> difference = 0
             [] op = "greater" -> difference > 0
             [] op = "less" -> difference < 0

\* The result has the requested length, also where the source ends before it
Mid(s, src, index, length) ==
    LET x == Val(s, src)
        Char(i) == IF index + i <= Len(x) THEN x[index + i] ELSE 0
    IN  IF Type(s, src) \notin {"buffer", "string"} THEN Fail(s)
        ELSE Create(s, Type(s, src), [i \in 1 .. length |-> Char(i)])

TypeNames == <<"uninit", "package", "fieldUnit", "device", "event", "method", "mutex", "region",
               "powerResource", "processor", "thermalZone", "bufferField", "debug">>

\* What an operand adds to a result of the type that the first operand decides: an integer
\* its bytes, a string its text, and what holds no data the name of its type
Contents(v, type) == CASE type = "integer" -> Bytes(v,
        IntBytes) [] type = "string" -> CString(v) [] OTHER -> v

Appended(s, old, type) == IF s.ok THEN Return(s, old \o Contents(Val(s, s.v), type)) ELSE s
Join(s, src, type) ==
    CASE s.ok /\ Type(s, src) \in Computational
          -> Appended(ConvertSource(s, src, {type}), s.v, type)
      [] s.ok /\ Type(s, src) \in Range(TypeNames) /\ type # "integer" ->
             Return(s, Append(s.v, 127 + SelectInSeq(TypeNames, LAMBDA t : t = Type(s, src))))
      [] OTHER -> Fail(s)

\* aml_concat()
Concat(s, a, b, result) ==
    LET type == IF Type(s, a) \in {"integer", "buffer"} THEN Type(s, a) ELSE "string"
    IN  IF Type(s, a) = "uninit" \/ Type(s, b) = "uninit" THEN Fail(s)
        ELSE Then(Join(Join(Return(s, <<>>), a, type), b, type),
                  LAMBDA r : Set(r, result, IF type = "string" THEN "string" ELSE "buffer", r.v))

-----------------------------------------------------------------------------
(* The namespace: namespace.c, state.c and patch_up.c.  Every named object   *)
(* has a parent, a name and the overlay in which it was created; a method or *)
(* table that is being run sees the overlays from its own up to the global   *)
(* one, and its own is dropped or committed at the end.  The frames of the   *)
(* methods that are running are a stack: [args, locals, result, ov].         *)

\* A name string as it is read: from the root or from so many scopes up, and the names
NameString(root, up, path) == [root |-> root, up |-> up, path |-> path]

RECURSIVE FindIn(_, _, _, _)
FindIn(s, ov, parent, name) ==
    LET found == {o \in Children(s, parent) : s.objs[o].name = name /\ s.objs[o].ov = ov}
    IN  CASE ov = 0 -> Null
          [] ov # 0 /\ found # {} -> CHOOSE o \in found : TRUE
          [] OTHER -> FindIn(s, s.ovp[ov], parent, name)

FindChild(s, ov, parent, name) ==
    IF Named(s, parent) THEN Traverse(s, FindIn(s, ov, parent, name)) ELSE Null

RECURSIVE Ancestor(_, _, _)
Ancestor(s, o, depth) ==
    IF depth = 0 \/ o = Null THEN o ELSE Ancestor(s, s.objs[o].parent, depth - 1)

RECURSIVE SearchSingleName(_, _, _, _)
SearchSingleName(s, ov, o, name) ==
    LET found == FindChild(s, ov, o, name)
    IN  IF found # Null \/ s.objs[o].parent = Null THEN found
        ELSE SearchSingleName(s, ov, s.objs[o].parent, name)

RECURSIVE FindPath(_, _, _, _)
FindPath(s, ov, o, path) ==
    IF path = <<>> \/ o = Null THEN o
    ELSE FindPath(s, ov, FindChild(s, ov, o, Head(path)), Tail(path))

\* aml_namespace_find_by_name_string(): a lone name is looked for up to the root
Find(s, ov, start, ns) ==
    LET base == Ancestor(s, IF ns.root THEN RootId ELSE start, ns.up)
    IN  CASE base = Null -> Null
          [] base # Null /\ ~ns.root /\ ns.up = 0 /\ Len(ns.path) = 1 ->
                 SearchSingleName(s, ov, base, ns.path[1])
          [] OTHER -> FindPath(s, ov, base, ns.path)

\* aml_namespace_find_by_path(): the same for a path in a string object, but a lone
\* name after parent prefixes is looked for up to the root as well.  The names of
\* the model are the letters from A
Letters == <<"A", "B", "C", "D", "E", "F", "G", "H">>
RECURSIVE ParsePath(_, _)
ParsePath(str, ns) ==
    CASE str = <<>> -> ns
      [] str # <<>> /\ Head(str) = 92 -> ParsePath(Tail(str), [ns EXCEPT !.root = TRUE])
      [] str # <<>> /\ Head(str) = 94 -> ParsePath(Tail(str), [ns EXCEPT !.up = @ + 1])
      [] str # <<>> /\ Head(str) = 46 -> ParsePath(Tail(str), ns)
      [] OTHER -> ParsePath(Tail(str), [ns EXCEPT !.path = Append(@, IF Head(str) \in 65 .. 72
                                             THEN Letters[Head(str) - 64] ELSE "none")])

FindByPath(s, ov, start, str) ==
    LET ns == ParsePath(str, NameString(FALSE, 0, <<>>))
        base == Ancestor(s, IF ns.root THEN RootId ELSE start, ns.up)
    IN  CASE str = <<>> \/ base = Null -> Null
          [] str # <<>> /\ base # Null
            /\ Len(ns.path) = 1 -> SearchSingleName(s, ov, base, ns.path[1])
          [] OTHER -> FindPath(s, ov, base, ns.path)

\* Mutant: a name may be defined twice.
AddChild_Twice(s, ov, parent, name, o) ==
    IF Type(s, o) = "uninit" \/ ~Named(s, parent) \/ Named(s, o) THEN Fail(s)
    ELSE [s EXCEPT !.objs[o].parent = parent, !.objs[o].name = name, !.objs[o].ov = ov]

AddChild(s, ov, parent, name, o) ==
    IF \/ Type(s, o) = "uninit" \/ ~Named(s, parent) \/ Named(s, o)
       \/ FindIn(s, ov, parent, name) # Null
    THEN Fail(s)
    ELSE [s EXCEPT !.objs[o].parent = parent, !.objs[o].name = name, !.objs[o].ov = ov]

AddByNameString(s, ov, start, ns, o) ==
    LET parent == IF Len(ns.path) = 1
                  THEN Ancestor(s, IF ns.root THEN RootId ELSE start, ns.up)
                  ELSE Find(s, ov, start, [ns EXCEPT !.path = Front(@)])
    IN  IF ns.path = <<>> \/ parent = Null THEN Fail(s)
        ELSE AddChild(s, ov, parent, Last(ns.path), o)

InOverlay(s, ov) == {o \in DOMAIN s.objs : s.objs[o].ov = ov} \ {RootId}

Commit(s, ov) ==
    [s EXCEPT !.objs = [o \in DOMAIN @ |->
        IF o \in InOverlay(s, ov) THEN [@[o] EXCEPT !.ov = s.ovp[ov]] ELSE @[o]]]

RECURSIVE FindContaining(_, _, _)
FindContaining(s, ov, o) ==
    CASE ov = 0 -> 0
      [] ov # 0 /\ s.objs[o].ov = ov -> ov
      [] OTHER -> FindContaining(s, s.ovp[ov], o)

----------------------------------------------------------------------------
(* The state of a method or table that is run.                             *)

MaxArgs == 7
MaxLocals == 8
Frame(s) == Last(s.frames)

RECURSIVE WrapArgs(_, _, _)
WrapArgs(s, args, wrapped) ==
    IF args = <<>> THEN Return(s, wrapped)
    ELSE LET c == Create(s, "arg", Head(args)) IN WrapArgs(c, Tail(args), Append(wrapped, c.v))

StateInit(s, args, parent) ==
    LET w == WrapArgs(s, args, <<>>)
    IN  [w EXCEPT !.ovp = Append(@, parent),
                  !.frames = Append(@, [args |-> w.v,
                          locals |-> [i \in 0 .. MaxLocals - 1 |-> Null],
                                        result |-> Null, ov |-> Len(s.ovp) + 1])]

StateDeinit(s) ==
    [Unname(s, InOverlay(s, Frame(s).ov)) EXCEPT !.ovp = Front(@), !.frames = Front(@)]

ResultSet(s, o) == [s EXCEPT !.frames[Len(s.frames)].result = o]

\* aml_state_result_get(): no result is a zero that must not be used
ResultGet(s) ==
    LET new == Create(s, "uninit", 0)
        none == [SetInteger(new, new.v, 0) EXCEPT !.objs[new.v].exc = TRUE]
    IN  IF Frame(s).result = Null THEN none
        ELSE Then(Put("copyObject", new, Frame(s).result, new.v), LAMBDA r : Return(r, new.v))

----------------------------------------------------------------------------
(* References to names that were not there yet.                            *)

\* aml_package_element_handle_name(): data is copied, anything else referred to
ElementHandleName(s, in, out) ==
    IF Type(s, in) \notin {"integer", "string", "buffer", "bufferField", "fieldUnit", "package"}
    THEN Set(s, out, "ref", in)
    ELSE IF Type(s, in) \in DataRef THEN Copy(s, in, out)
         ELSE Convert(s, in, out, {"integer", "string", "buffer", "package"})

ResolveOne(s, o) ==
    LET match == Find(s, Len(s.ovp), Val(s, o).from, Val(s, o).path)
    IN  IF match = Null THEN s
        ELSE Then(ElementHandleName(s, match, o),
                  LAMBDA r : IF Type(r, o) = "unresolved" THEN Fail(r) ELSE r)

PatchUpResolveAll(s) ==
    Finally(FoldLeft(LAMBDA r, o : IF r.ok THEN ResolveOne(r, o) ELSE r,
                     StateInit(s, <<>>, Global), s.patch),
            LAMBDA r : [StateDeinit([r EXCEPT !.ok = TRUE]) EXCEPT !.ok = r.ok])

-----------------------------------------------------------------------------
(* Terms *)

\* The readers call each other through this one, by their names
RECURSIVE Read(_, _, _, _, _)
RECURSIVE PackageElements(_, _, _, _, _)

AmlTrue == Ones
Giving(s, o) == Then(s, LAMBDA r : Return(r, o))
NullName == <<"Null">>

----------------------------------------------------------------------------
(* Names, arguments and locals.                                            *)

\* A name that is not found reads as a new zero
Resolve(s, sc, ns) ==
    LET o == Find(s, Frame(s).ov, sc, ns)
    IN  CASE o = Null -> Create(s, "integer", 0)
          [] o # Null /\ Type(s, o) = "uninit" -> Fail(s)
          [] OTHER -> Return(s, o)

ArgObj(s, i) == IF i >= Len(Frame(s).args) THEN Fail(s) ELSE Return(s, Frame(s).args[i + 1])

LocalObj(s, i) ==
    LET value == Create(s, "uninit", 0)
        new == Create(value, "local", value.v)
    IN  IF Frame(s).locals[i] # Null THEN Return(s, Frame(s).locals[i])
        ELSE [new EXCEPT !.frames[Len(s.frames)].locals[i] = new.v]

SimpleName(s, sc, t) ==
    CASE t[1] = "Name" -> Resolve(s, sc, t[2])
      [] t[1] = "Arg" -> ArgObj(s, t[2])
      [] t[1] = "Local" -> LocalObj(s, t[2])
      [] OTHER -> Fail(s)

\* The result of RefOf, DerefOf and Index stands for what it refers to
ReferenceType(s, sc, t) ==
    IF t[1] \notin {"RefOf", "DerefOf", "Index"} THEN Fail(s)
    ELSE Then(Read("Expression", s, sc, t, {}), LAMBDA r :
             IF Type(r, r.v) = "ref" THEN Return(r, Val(r, r.v)) ELSE r)

SuperName(s, sc, t) ==
    CASE t[1] \in {"Name", "Arg", "Local"} -> SimpleName(s, sc, t)
      [] t[1] = "Debug" -> Create(s, "debug", 0)
      [] OTHER -> ReferenceType(s, sc, t)

Target(s, sc, t) == IF t = NullName THEN Return(s, Null) ELSE SuperName(s, sc, t)

----------------------------------------------------------------------------
(* Data.                                                                   *)

Element(s, sc, t, out) ==
    LET o == Find(s, Frame(s).ov, sc, t[2])
    IN  IF t[1] # "Name" THEN Read("DataObject", s, sc, t, out)
        ELSE IF o = Null THEN SetUnresolved(s, out, t[2], sc, "element")
             ELSE ElementHandleName(s, o, out)

PackageElements(s, sc, ts, out, i) ==
    IF ~s.ok \/ i > Min({Len(ts), Len(Val(s, out))}) THEN s
    ELSE PackageElements(Element(s, sc, ts[i], Val(s, out)[i]), sc, ts, out, i + 1)

DefPackage(s, sc, t, out) ==
    Then(IF t[1] = "VarPackage" THEN Read("TermArg", s, sc, t[2], {"integer"}) ELSE s,
         LAMBDA sized :
        Finally(PackageElements(SetPackage(sized, out, IF t[1] = "VarPackage"
                                                       THEN Val(sized, sized.v) ELSE t[2]),
                                sc, t[3], out, 1),
                LAMBDA r : IF r.ok THEN r ELSE Clear(r, out)))

DefBuffer(s, sc, t, out) ==
    Then(Read("TermArg", s, sc, t[2], {"integer"}), LAMBDA r :
        IF Len(t[3]) > Val(r, r.v) THEN Fail(r)
        ELSE Set(r, out, "buffer", [i \in 1 .. Val(r,
                r.v) |-> IF i <= Len(t[3]) THEN t[3][i] ELSE 0]))

ComputationalData(s, sc, t, out) ==
    CASE t[1] = "Integer" -> SetInteger(s, out, t[2])
      [] t[1] = "String" -> SetString(s, out, t[2])
      [] t[1] = "Buffer" -> DefBuffer(s, sc, t, out)
      [] OTHER -> Fail(s)

DataObject(s, sc, t, out) ==
    IF t[1] \in {"Package", "VarPackage"} THEN DefPackage(s, sc, t, out)
    ELSE ComputationalData(s, sc, t, out)

NewData(s, sc, t) ==
    Finally(Create(s, "uninit", 0), LAMBDA new :
        Giving(Read("DataObject", new, sc, t, new.v), new.v))

TermArg(s, sc, t, allowed) ==
    Then(CASE t[1] \in {"Integer", "String"} -> NewData(s, sc, t)
           [] t[1] = "Arg" -> ArgObj(s, t[2])
           [] t[1] = "Local" -> LocalObj(s, t[2])
           [] OTHER -> Read("Expression", s, sc, t, {}),
         LAMBDA r : ConvertSource(r, r.v, allowed))

----------------------------------------------------------------------------
(* Methods.                                                                *)

\* The methods that the kernel provides; the text of \_OS is of no matter here
Revision == 2
OsName == <<79, 83>>
Implementation(s, impl, args) ==
    CASE impl = "osi" -> IF Type(s, args[1]) # "string" THEN Fail(s)
                         ELSE Create(s, "integer", Ones)
      [] impl = "rev" -> Create(s, "integer", Revision % 2^IntBits)
      [] impl = "os" -> Create(s, "string", OsName)

Unlock(s, f) == IF f.serialized THEN Release([s EXCEPT !.ok = TRUE], f.id) ELSE s

\* aml_method_invoke(): the mutex of a serialized method is released on every path,
\* but on an error it is no longer looked at whether that worked
RunInternal(s, f, args) ==
    Finally(Implementation(s, f.impl, args), LAMBDA r :
        Finally(Unlock(r, f), LAMBDA u : IF r.ok /\ u.ok THEN Return(u, r.v) ELSE Fail(u)))

RunBody(s, m, f, args, ov) ==
    Finally(Read("TermList", StateInit(s, args, ov), m, f.body, {}), LAMBDA r :
        IF ~r.ok THEN Fail(Unlock(StateDeinit([r EXCEPT !.stop = "none"]), f))
        ELSE StateDeinit(Then(Unlock([r EXCEPT !.stop = "none"], f), LAMBDA u : ResultGet(u))))

Invoke(s, m, args) ==
    LET f == Val(s, m)
        ov == FindContaining(s, Frame(s).ov, m)
    IN  IF Len(args) # f.argCount \/ (f.serialized /\ ~Acquire(s, f.id, f.sync).ok) THEN Fail(s)
        ELSE Finally(IF f.serialized THEN Acquire(s, f.id, f.sync) ELSE s, LAMBDA locked :
                 CASE f.impl # "none" -> RunInternal(locked, f, args)
                   [] f.impl = "none" /\ ov = 0 -> Fail(Unlock(locked, f))
                   [] OTHER -> RunBody(locked, m, f, args, ov))

RECURSIVE TermArgList(_, _, _, _)
TermArgList(s, sc, ts, args) ==
    IF ts = <<>> THEN Return(s, args)
    ELSE Then(Read("TermArg", s, sc, Head(ts), DataRef),
              LAMBDA r : TermArgList(r, sc, Tail(ts), Append(args, r.v)))

\* The result of a call is also the result of the caller, until it has another one
MethodInvocation(s, sc, t) ==
    Then(Resolve(s, sc, t[2]), LAMBDA to :
        IF Type(to, to.v) # "method" THEN to
        ELSE Then(TermArgList(to, sc, IF Len(t) = 3 THEN t[3] ELSE <<>>, <<>>), LAMBDA a :
                 Then(Read("Invoke", a, to.v, a.v, {}), LAMBDA r : ResultSet(r, r.v))))

\* aml_evaluate() without a state
Evaluate(s, o, targets) ==
    Finally(StateInit(s, <<>>, Global), LAMBDA e :
        StateDeinit(CASE Type(s, o) \in targets -> Return(e, o)
                      [] Type(s, o) \notin targets /\ Type(s, o) = "method" ->
                             Then(Read("Invoke", e, o, <<>>, {}),
                                  LAMBDA i : ConvertSource(i, i.v, targets))
                      [] OTHER -> ConvertSource(e, o, targets)))

----------------------------------------------------------------------------
(* Expressions: the operands are read in order, each as its kind says, and  *)
(* given to the operation as v: objects, or the values of the ones that are *)
(* read as a Number.                                                        *)

TypesOf(kind) ==
    CASE kind \in {"Integer", "Number"} -> {"integer"}
      [] kind = "Data" -> DataRef
      [] kind = "Computational" -> Computational
      [] kind = "Reference" -> {"ref", "string"}
      [] kind = "Indexed" -> {"buffer", "package", "string"}
      [] kind = "Package" -> {"package"}
      [] kind = "Buffer" -> {"buffer"}
      [] kind = "Text" -> {"string", "buffer"}

ReadOperand(s, sc, kind, t) ==
    CASE kind = "Target" -> Target(s, sc, t)
      [] kind = "SuperName" -> SuperName(s, sc, t)
      [] kind = "SimpleName" -> SimpleName(s, sc, t)
      [] kind = "Destination" -> Then(Target(s, sc, t),
                                      LAMBDA r : IF r.v = Null THEN Fail(r) ELSE r)
      [] kind = "Number" -> Then(Read("TermArg", s, sc, t, {"integer"}),
                                 LAMBDA r : Return(r, Val(r, r.v)))
      [] kind = "Match" -> Return(s, t)
      [] OTHER -> Read("TermArg", s, sc, t, TypesOf(kind))

RECURSIVE ReadOperands(_, _, _, _, _)
ReadOperands(s, sc, kinds, ts, read) ==
    IF kinds = <<>> THEN Return(s, read)
    ELSE Then(ReadOperand(s, sc, Head(kinds), Head(ts)), LAMBDA r :
             ReadOperands(r, sc, Tail(kinds), Tail(ts), Append(read, r.v)))

\* An operation that has made its result in v stores it
StoreTo(s, target) == Then(s, LAMBDA r : Giving(Put("store", r, r.v, target), r.v))
NewInteger(s, n) == Create(s, "integer", n % 2^IntBits)

Arithmetic(op, x, y) ==
    CASE op = "Add" -> x + y
      [] op = "Subtract" -> x - y
      [] op = "Multiply" -> x * y

Logic(op, x, y) ==
    CASE op = "And" -> x & y
      [] op = "NAnd" -> Ones - (x & y)
      [] op = "Or" -> x | y
      [] op = "NOr" -> Ones - (x | y)
      [] op = "XOr" -> x ^^ y

\* A zero divides as a one
Divisor(n) == IF n = 0 THEN 1 ELSE n

Divide(s, v) ==
    LET remainder == Create(s, "integer", v[1] % Divisor(v[2]))
    IN  Then(StoreTo(remainder, v[3]), LAMBDA r : SetInteger(r, r.v, v[1] \div Divisor(v[2])))

DefMod(s, v) == NewInteger(s, v[1] % Divisor(v[2]))

DefNot(s, v) == NewInteger(s, Ones - Val(s, v[1]))

Shift(op, x, count) ==
    IF count >= IntBits THEN 0 ELSE IF op = "ShiftLeft" THEN x * 2^count ELSE x \div 2^count

\* Increment and Decrement convert the object to an integer and the result back
Counted(s, n) == IF s.ok THEN NewInteger(s, Val(s, s.v) + n) ELSE s
CountedTo(s, o) == IF s.ok THEN Giving(Put("result", s, s.v, o), s.v) ELSE s
CountBy(s, o, n) ==
    CountedTo(Counted(ConvertSource(s, o, {"integer"}), n), o)

\* aml_obj_reference_read(): a string is the path of an object
DerefOf(s, sc, o) ==
    LET found == FindByPath(s, Frame(s).ov, sc, Val(s, o))
    IN  CASE Type(s, o) = "ref" -> Return(s, Val(s, o))
          [] OTHER -> IF found = Null THEN Fail(s) ELSE Return(s, found)

\* A byte of a buffer or string is referred to through a field of its own
DefIndex(s, v) ==
    LET field == Create(s, "bufferField", [target |-> v[1], at |-> 8 * v[2], size |-> 8])
        byte == Create(field, "ref", field.v)
        element == Create(s, "ref", Val(s, v[1])[v[2] + 1])
    IN  IF v[2] >= Len(Val(s, v[1])) THEN Fail(s)
        ELSE IF Type(s, v[1]) = "package" THEN element ELSE byte

Truth(b) == IF b THEN AmlTrue ELSE 0
LogicalOp(s, op, a, b) ==
    CASE op = "LAnd" -> Compare(s, a, b, "and")
      [] op = "LEqual" -> Compare(s, a, b, "equal")
      [] op = "LGreater" -> Compare(s, a, b, "greater")
      [] op = "LGreaterEqual" -> ~Compare(s, a, b, "less")
      [] op = "LLess" -> Compare(s, a, b, "less")
      [] op = "LLessEqual" -> ~Compare(s, a, b, "greater")

LogicalOpLate(s, op, a, b) ==
    CASE op = "LNotEqual" -> ~Compare(s, a, b, "equal")
      [] op = "LOr" -> Compare(s, a, b, "or")

\* An error of the mutex is an error of the term
DefAcquire(s, o) ==
    IF Type(s, o) # "mutex" THEN Fail(s)
    ELSE Then(Acquire(s, Val(s, o).id, Val(s, o).sync), LAMBDA r : NewInteger(r, 0))

Conversion(s, op, v) ==
    CASE op = "ToBCD" -> NewInteger(s, Bcd(Val(s, v[1]), 2 * IntBytes))
      [] op = "ToBuffer" -> ToBuffer(s, v[1])
      [] op = "ToDecimalString" -> ToDecimalString(s, v[1])
      [] op = "ToHexString" -> ToHexString(s, v[1])
      [] op = "ToInteger" -> ToInteger(s, v[1])

DefToString(s, v) == Create(s, "string", SubSeq(Val(s, v[1]), 1, Min({v[2], Len(Val(s, v[1]))})))

DefTimer(s) == NewInteger(s, s.time)

DefCopyObject(s, v) == Giving(Put("copyObject", s, v[1], v[2]), v[1])

DefConcat(s, v) ==
    LET new == Create(s, "uninit", 0)
    IN  Then(Concat(new, v[1], v[2], new.v), LAMBDA r : Return(r, new.v))

SizeOf(s, o) ==
    LET of == IF Type(s, o) \in {"arg", "local"} THEN Val(s, o) ELSE o
    IN  IF of = Null THEN Fail(s)
        ELSE IF Type(s, of) \in {"buffer", "string", "package"}
             THEN NewInteger(s, Len(Val(s, of))) ELSE Fail(s)

RefOf(s, o) == Create(s, "ref", o)

\* The result itself becomes the reference, whatever it was
CondRefOf(s, v) ==
    NewInteger(IF v[2] = Null THEN s ELSE Set(s, v[2], "ref", v[1]), AmlTrue)

TypeNumbers ==
  <<"integer", "string", "buffer", "package", "fieldUnit", "device", "event", "method", "mutex",
                 "region", "powerResource", "unused", "thermalZone", "bufferField", "debug">>

ObjectType(s, sc, t) ==
    LET read == CASE t[1] = "Debug" -> Create(s, "debug", 0)
                  [] t[1] \in {"RefOf", "DerefOf", "Index"} -> Read("Expression", s, sc, t, {})
                  [] OTHER -> SimpleName(s, sc, t)
        Kind(r) == Type(r, IF Type(r, r.v) = "ref" THEN Val(r, r.v) ELSE r.v)
    IN  Then(read, LAMBDA r : NewInteger(r, SelectInSeq(TypeNumbers, LAMBDA k : k = Kind(r))))

\* The place of the highest or lowest bit that is set, counted from one
FindSetBit(op, x) ==
    LET bits == {i \in 1 .. IntBits : Slice(x, i - 1, 1) = 1}
    IN  IF bits = {} THEN 0 ELSE IF op = "FindSetLeftBit" THEN Max(bits) ELSE Min(bits)

MatchCompare(s, a, b, op) ==
    CASE op = "MTR" -> TRUE
      [] op = "MEQ" -> Compare(s, a, b, "equal")
      [] op = "MLE" -> ~Compare(s, a, b, "greater")
      [] op = "MLT" -> Compare(s, a, b, "less")
      [] op = "MGE" -> ~Compare(s, a, b, "less")
      [] op = "MGT" -> Compare(s, a, b, "greater")

\* The first element from an index on that both comparisons hold of; an element that
\* cannot be converted to the types they need is passed over
Holds(c, op, o) == c.ok /\ MatchCompare(c, c.v, o, op)
FirstOf(found) == IF found = {} THEN Ones ELSE Min(found) - 1
Match(s, v) ==
    LET tests == {<<v[2], v[3]>>, <<v[4], v[5]>>}
        elements == Val(s, v[1])
    IN  NewInteger(s, FirstOf({i \in v[6] + 1 .. Len(elements) :
                /\ Type(s, elements[i]) # "uninit"
                /\ \A t \in tests : Holds(ConvertSource(s, elements[i], {Type(s, t[2])}), t[1],
                                          t[2])}))

DefMid(s, v) == Mid(s, v[1], v[2], v[3])

\* How the operands of an operation are read
Binary == {"Add", "Subtract", "Multiply", "And", "NAnd", "Or", "NOr", "XOr"}
Logical == {"LEqual", "LGreater", "LGreaterEqual", "LLess", "LLessEqual", "LNotEqual"}
Operands(op) ==
    CASE op \in Binary -> <<"Integer", "Integer", "Target">>
      [] op \in Logical -> <<"Computational", "Computational">>
      [] op \in {"LAnd", "LOr"} -> <<"Integer", "Integer">>
      [] op = "LNot" -> <<"Integer">>
      [] op = "Store" -> <<"Data", "SuperName">>
      [] op = "Divide" -> <<"Number", "Number", "Destination", "Destination">>
      [] op = "Mod" -> <<"Number", "Number", "Target">>
      [] op \in {"Not", "ToBCD", "ToDecimalString", "ToHexString", "FindSetLeftBit",
                 "FindSetRightBit"} ->
             <<"Integer", "Target">>
      [] op \in {"ToBuffer", "ToInteger"} -> <<"Computational", "Target">>
      [] op \in {"ShiftLeft", "ShiftRight"} -> <<"Integer", "Number", "Target">>
      [] op \in {"Increment", "Decrement", "SizeOf", "RefOf", "Acquire"} -> <<"SuperName">>
      [] op = "DerefOf" -> <<"Reference">>
      [] op = "Index" -> <<"Indexed", "Number", "Target">>
      [] op = "ToString" -> <<"Buffer", "Number", "Target">>
      [] op = "CopyObject" -> <<"Data", "SimpleName">>
      [] op = "Concat" -> <<"Computational", "Computational", "Target">>
      [] op = "CondRefOf" -> <<"SuperName", "Target">>
      [] op = "Match" -> <<"Package", "Match", "Computational", "Match", "Computational",
                           "Number">>
      [] op = "Mid" -> <<"Text", "Number", "Number", "Target">>
      [] op = "Timer" -> <<>>

\* The result of an operation whose last operand is a target is stored there
HasTarget(op) ==
  Operands(op) # <<>> /\ op # "CondRefOf" /\ Last(Operands(op)) \in {"Target", "Destination"}

DefStore(s, v) == Giving(Put("store", s, v[1], v[2]), v[1])

Operation(s, sc, op, v) ==
    CASE op \in {"Add", "Subtract", "Multiply"}
          -> NewInteger(s, Arithmetic(op, Val(s, v[1]), Val(s, v[2])))
      [] op \in {"And", "NAnd", "Or", "NOr", "XOr"}
            -> NewInteger(s, Logic(op, Val(s, v[1]), Val(s, v[2])))
      [] op \in {"ShiftLeft", "ShiftRight"} -> NewInteger(s, Shift(op, Val(s, v[1]), v[2]))
      [] op \in {"FindSetLeftBit", "FindSetRightBit"}
            -> NewInteger(s, FindSetBit(op, Val(s, v[1])))
      [] op = "Divide" -> Divide(s, v)
      [] op = "Mod" -> DefMod(s, v)
      [] op = "Not" -> DefNot(s, v)
      [] op \in {"ToBCD", "ToBuffer", "ToDecimalString", "ToHexString", "ToInteger"}
            -> Conversion(s, op, v)
      [] op = "Index" -> DefIndex(s, v)
      [] op = "ToString" -> DefToString(s, v)
      [] op = "Concat" -> DefConcat(s, v)
      [] op = "Mid" -> DefMid(s, v)

OperationAlone(s, sc, op, v) ==
    CASE op \in {"LNotEqual", "LOr"} -> NewInteger(s, Truth(LogicalOpLate(s, op, v[1], v[2])))
      [] op \in (Logical \cup {"LAnd"}) \ {"LNotEqual"}
            -> NewInteger(s, Truth(LogicalOp(s, op, v[1], v[2])))
      [] op = "LNot" -> NewInteger(s, Truth(Val(s, v[1]) = 0))
      [] op = "Store" -> DefStore(s, v)
      [] op = "CopyObject" -> DefCopyObject(s, v)
      [] op \in {"Increment", "Decrement"} -> CountBy(s, v[1], IF op = "Increment" THEN 1 ELSE -1)
      [] op = "SizeOf" -> SizeOf(s, v[1])
      [] op = "RefOf" -> RefOf(s, v[1])
      [] op = "Acquire" -> DefAcquire(s, v[1])
      [] op = "DerefOf" -> DerefOf(s, sc, v[1])
      [] op = "CondRefOf" -> CondRefOf(s, v)
      [] op = "Match" -> Match(s, v)
      [] op = "Timer" -> DefTimer(s)

Operate(s, sc, op) ==
    IF ~s.ok THEN s
    ELSE IF HasTarget(op) THEN StoreTo(Operation(s, sc, op, s.v), Last(s.v))
    ELSE OperationAlone(s, sc, op, s.v)

Expression(s, sc, t) ==
    CASE t[1] = "Name" -> MethodInvocation(s, sc, t)
      [] t[1] \in {"Buffer", "Package", "VarPackage"} -> NewData(s, sc, t)
      [] t[1] = "ObjectType" -> ObjectType(s, sc, t[2])
      [] OTHER -> Operate(ReadOperands(s, sc, Operands(t[1]), Tail(t), <<>>), sc, t[1])

----------------------------------------------------------------------------
(* Statements.                                                             *)

Predicate(s, sc, t) == ReadOperand(s, sc, "Number", t)

\* <<"If", predicate, then, else>>
IfElse(s, sc, t) ==
    Then(Predicate(s, sc, t[2]), LAMBDA r :
          Read("TermList", r, sc, IF r.v # 0 THEN t[3] ELSE t[4], {}))

RECURSIVE While(_, _, _)
While(s, sc, t) ==
    Then(Predicate(s, sc, t[2]), LAMBDA r :
        LET body == Read("TermList", r, sc, t[3], {})
        IN  CASE r.v = 0 -> r
              [] r.v # 0 /\ body.ok /\ body.stop = "none" -> While(body, sc, t)
              [] r.v # 0 /\ body.ok /\
                      body.stop = "continue" -> While([body EXCEPT !.stop = "none"], sc, t)
              [] r.v # 0 /\ body.ok /\ body.stop = "break" -> [body EXCEPT !.stop = "none"]
              [] OTHER -> body)

DefReturn(s, sc, t) ==
    Then(Read("TermArg", s, sc, t[2], DataRef),
         LAMBDA r : [ResultSet(r, r.v) EXCEPT !.stop = "return"])

DefRelease(s, sc, t) ==
    Then(SuperName(s, sc, t[2]), LAMBDA r :
        IF Type(r, r.v) # "mutex" THEN Fail(r) ELSE Release(r, Val(r, r.v).id))

Statements == {"If", "While", "Return", "Release", "Break", "Continue", "Noop"}
Statement(s, sc, t) ==
    CASE t[1] = "If" -> IfElse(s, sc, t)
      [] t[1] = "While" -> While(s, sc, t)
      [] t[1] = "Return" -> DefReturn(s, sc, t)
      [] t[1] = "Release" -> DefRelease(s, sc, t)
      [] t[1] = "Break" -> [s EXCEPT !.stop = "break"]
      [] t[1] = "Continue" -> [s EXCEPT !.stop = "continue"]
      [] t[1] = "Noop" -> s

----------------------------------------------------------------------------
(* Named objects.                                                          *)

\* <<op, name, ...>> makes an object and gives it the name
AddNew(s, sc, ns, type, x) ==
    LET new == Create(s, type, x)
    IN  Then(AddByNameString(new, Frame(s).ov, sc, ns, new.v), LAMBDA r : Return(r, new.v))

DefAlias(s, sc, t) == Then(Resolve(s, sc, t[2]), LAMBDA r : AddNew(r, sc, t[3], "alias", r.v))

DefName(s, sc, t) ==
    Then(NewData(s, sc, t[3]), LAMBDA r : AddByNameString(r, Frame(r).ov, sc, t[2], r.v))

Scopes == {"scope", "device", "processor", "thermalZone", "powerResource"}
DefScope(s, sc, t) ==
    Then(Resolve(s, sc, t[2]), LAMBDA r :
        IF Type(r, r.v) \notin Scopes THEN Fail(r) ELSE Read("TermList", r, r.v, t[3], {}))

DefOpregion(s, sc, t) ==
    Then(ReadOperands(s, sc, <<"Number", "Number">>, <<t[4], t[5]>>, <<>>), LAMBDA r :
        IF r.v[2] = 0 THEN Fail(r)
        ELSE AddNew(r, sc, t[2], "region",
                    [space |-> t[3], offset |-> r.v[1], length |-> r.v[2]]))

\* The elements of a field list, <<name, bits>> or <<"none", bits>> for what is skipped
RECURSIVE FieldList(_, _, _, _, _)
FieldList(s, sc, unit, es, at) ==
    LET new == Create(s, "fieldUnit", [unit EXCEPT !.at = at, !.size = Head(es)[2]])
        added == IF Head(es)[1] = "none" THEN s
                 ELSE IF Head(es)[2] = 0 THEN Fail(s)
                 ELSE AddChild(new, Frame(s).ov, sc, Head(es)[1], new.v)
    IN  IF es = <<>> THEN s
        ELSE Then(added, LAMBDA r : FieldList(r, sc, unit, Tail(es), at + Head(es)[2]))

Unit(kind, flags) ==
    [kind |-> kind, region |-> Null, index |-> Null, data |-> Null, bank |-> Null, value |-> 0,
     access |-> flags.access, lock |-> flags.lock, update |-> flags.update, at |-> 0, size |-> 0]

\* <<"Field", region, flags, elements>>
DefField(s, sc, t) ==
    Then(Resolve(s, sc, t[2]), LAMBDA r :
        IF Type(r, r.v) # "region" THEN Fail(r)
        ELSE FieldList(r, sc, [Unit("field", t[3]) EXCEPT !.region = r.v], t[4], 0))

\* <<"IndexField", index, data, flags, elements>>
DefIndexField(s, sc, t) ==
    Then(ReadOperands(s, sc, <<"SimpleName", "SimpleName">>,
                      <<<<"Name", t[2]>>, <<"Name", t[3]>>>>, <<>>), LAMBDA r :
        IF Type(r, r.v[1]) # "fieldUnit" \/ Type(r, r.v[2]) # "fieldUnit" THEN Fail(r)
        ELSE FieldList(r, sc, [Unit("index", t[4]) EXCEPT !.index = r.v[1], !.data = r.v[2]],
                       t[5], 0))

\* <<"BankField", region, bank, value, flags, elements>>; the types of the region and
\* the bank are not looked at, and the tables name a region and a field there
DefBankField(s, sc, t) ==
    Then(ReadOperands(s, sc, <<"SimpleName", "SimpleName", "Number">>,
                      <<<<"Name", t[2]>>, <<"Name", t[3]>>, t[4]>>, <<>>), LAMBDA r :
        FieldList(r, sc, [Unit("bank", t[5]) EXCEPT !.region = r.v[1], !.bank = r.v[2],
                                                    !.value = r.v[3] % 2^IntBits], t[6], 0))

\* <<"Method", name, flags, body>>
DefMethod(s, sc, t) ==
    AddNew(s, sc, t[2], "method", [argCount |-> t[3].argCount, serialized |-> t[3].serialized,
                                   sync |-> t[3].sync,
                                   body |-> t[4], impl |-> "none", id |-> NewMutexId(s)])

DefMutex(s, sc, t) ==
    LET new == Create(s, "uninit", 0)
    IN  Then(SetMutex(new, new.v, t[3]),
             LAMBDA r : AddByNameString(r, Frame(s).ov, sc, t[2], new.v))

\* <<op, name, body>> of what has a scope of its own
DefDevice(s, sc, t) ==
  Then(AddNew(s, sc, t[2], "device", 0), LAMBDA r : Read("TermList", r, r.v, t[3], {}))

DefProcessor(s, sc, t) ==
  Then(AddNew(s, sc, t[2], "processor", 0), LAMBDA r : Read("TermList", r, r.v, t[3], {}))

DefThermalZone(s, sc, t) ==
  Then(AddNew(s, sc, t[2], "thermalZone", 0), LAMBDA r : Read("TermList", r, r.v, t[3], {}))

DefPowerRes(s, sc, t) ==
  Then(AddNew(s, sc, t[2], "powerResource", 0), LAMBDA r : Read("TermList", r, r.v, t[3], {}))

DefEvent(s, sc, t) == AddNew(s, sc, t[2], "event", 0)

\* <<"CreateField", buffer, bit, bits, name>>
DefCreateField(s, sc, t) ==
    Then(ReadOperands(s, sc, <<"Buffer", "Number", "Number">>, <<t[2], t[3], t[4]>>, <<>>),
         LAMBDA r :
        IF r.v[3] = 0 THEN Fail(r)
        ELSE AddNew(r, sc, t[5], "bufferField",
                    [target |-> r.v[1], at |-> r.v[2], size |-> r.v[3]]))

\* <<"CreateByteField", buffer, index, name>> and its like: one bit, or whole bytes from a byte on
DefCreateBitField(s, sc, t) ==
    Then(ReadOperands(s, sc, <<"Buffer", "Number">>, <<t[2], t[3]>>, <<>>), LAMBDA r :
        AddNew(r, sc, t[4], "bufferField", [target |-> r.v[1], at |-> r.v[2], size |-> 1]))

FieldWidths ==
  [CreateByteField |-> 8, CreateWordField |-> 16, CreateDWordField |-> 32,
   CreateQWordField |-> 64]

DefCreateFieldHelper(s, sc, t) ==
    Then(ReadOperands(s, sc, <<"Buffer", "Number">>, <<t[2], t[3]>>, <<>>), LAMBDA r :
        AddNew(r, sc, t[4], "bufferField",
               [target |-> r.v[1], at |-> 8 * r.v[2], size |-> FieldWidths[t[1]]]))

NamedOps ==
  {"OpRegion", "Field", "IndexField", "BankField", "Method", "Device", "Mutex", "Processor",
   "ThermalZone",
             "PowerRes", "Event", "CreateField", "CreateBitField"} \cup DOMAIN FieldWidths

NamedObj(s, sc, t) ==
    CASE t[1] = "OpRegion" -> DefOpregion(s, sc, t)
      [] t[1] = "Field" -> DefField(s, sc, t)
      [] t[1] = "IndexField" -> DefIndexField(s, sc, t)
      [] t[1] = "BankField" -> DefBankField(s, sc, t)
      [] t[1] = "Method" -> DefMethod(s, sc, t)
      [] t[1] = "Device" -> DefDevice(s, sc, t)
      [] t[1] = "Mutex" -> DefMutex(s, sc, t)
      [] t[1] = "Processor" -> DefProcessor(s, sc, t)
      [] t[1] = "ThermalZone" -> DefThermalZone(s, sc, t)
      [] t[1] = "PowerRes" -> DefPowerRes(s, sc, t)
      [] t[1] = "Event" -> DefEvent(s, sc, t)
      [] t[1] = "CreateField" -> DefCreateField(s, sc, t)
      [] t[1] = "CreateBitField" -> DefCreateBitField(s, sc, t)
      [] t[1] \in DOMAIN FieldWidths -> DefCreateFieldHelper(s, sc, t)

NamespaceModifier(s, sc, t) ==
    CASE t[1] = "Alias" -> DefAlias(s, sc, t)
      [] t[1] = "NameOp" -> DefName(s, sc, t)
      [] t[1] = "Scope" -> DefScope(s, sc, t)

TermObj(s, sc, t) ==
    CASE t[1] \in Statements -> Statement(s, sc, t)
      [] t[1] \in NamedOps -> NamedObj(s, sc, t)
      [] t[1] \in {"Alias", "NameOp", "Scope"} -> NamespaceModifier(s, sc, t)
      [] OTHER -> Read("Expression", s, sc, t, {})

RECURSIVE TermList(_, _, _)
TermList(s, sc, ts) ==
    IF ts = <<>> \/ ~s.ok \/ s.stop # "none" THEN s
    ELSE TermList(TermObj(s, sc, Head(ts)), sc, Tail(ts))

Read(what, s, sc, t, x) ==
    CASE what = "TermArg" -> TermArg(s, sc, t, x)
      [] what = "Expression" -> Expression(s, sc, t)
      [] what = "DataObject" -> DataObject(s, sc, t, x)
      [] what = "TermList" -> TermList(s, sc, t)
      [] what = "Invoke" -> Invoke(s, sc, t)

-----------------------------------------------------------------------------
(* Loading tables and evaluating objects: aml.c and predefined.c. *)

CONSTANTS
  Dsdts,        \* what the first table may hold, each a list of terms
  Ssdts,        \* the tables after it, in their order
  Evaluations,  \* what is evaluated, [path, types]
  MaxCalls,     \* how often
  Times,        \* what clock_uptime() may give
  Memory        \* the bytes of the operation regions at the start

VARIABLES
  st,      \* the state of the interpreter between two calls
  loads,   \* how many tables were loaded
  phase,   \* "loading", "ready" or "failed"
  calls,   \* how many evaluations may still follow
  last     \* what the last call did: [op, ok]

amlVars == <<st, loads, phase, calls, last>>

----------------------------------------------------------------------------

InitialMethod(impl, argCount, id) ==
    [Object("method", [argCount |-> argCount, serialized |-> TRUE, sync |-> 15, body |-> <<>>,
                       impl |-> impl, id |-> id]) EXCEPT !.parent = RootId, !.ov = Global]

Predefined ==
    <<[Object("scope", 0) EXCEPT !.ov = Global],
      [Object("mutex", [sync |-> 0, id |-> 1])
       EXCEPT !.parent = RootId, !.ov = Global, !.name = "_GL"],
      [Object("scope", 0) EXCEPT !.parent = RootId, !.ov = Global, !.name = "_SB"],
      [InitialMethod("osi", 1, 2) EXCEPT !.name = "_OSI"],
      [InitialMethod("rev", 0, 3) EXCEPT !.name = "_REV"],
      [InitialMethod("os", 0, 4) EXCEPT !.name = "_OS"]>>

\* What an object holds a reference to
Held(o) ==
    CASE o.type \in {"ref", "alias", "arg", "local"} -> {o.val} \ {Null}
      [] o.type = "package" -> Range(o.val)
      [] o.type = "bufferField" -> {o.val.target}
      [] o.type = "fieldUnit" -> {o.val.region, o.val.index, o.val.data, o.val.bank} \ {Null}
      [] o.type = "unresolved" -> {o.val.from}
      [] OTHER -> {}

RECURSIVE Collect(_)
Collect(s) ==
    LET held == UNION {Held(s.objs[o]) : o \in DOMAIN s.objs}
        dead == {o \in DOMAIN s.objs : ~Named(s, o) /\ o \notin held}
        r == Unname(s, UNION {Children(s, o) : o \in dead})
    IN  IF dead = {} THEN s
        ELSE Collect([r EXCEPT !.objs = [o \in DOMAIN @ \ dead |-> @[o]],
                               !.patch = SelectSeq(@, LAMBDA u : u \notin dead)])

\* The end of a call
Settle(s) == Collect([s EXCEPT !.ok = TRUE, !.v = Null, !.stop = "none", !.time = 0])

Init ==
  /\ st = [objs |-> Predefined, ovp |-> <<0>>, mtx |-> <<>>, mem |-> Memory, patch |-> <<>>,
           frames |-> <<>>, stop |-> "none", ok |-> TRUE, v |-> Null, time |-> 0]
  /\ loads = 0
  /\ phase = "loading"
  /\ calls = MaxCalls
  /\ last = [op |-> "none", ok |-> TRUE]

\* Mutant: the names of a table that fails half way stay.
Parse_Partly(s, terms) ==
    Finally(Read("TermList", StateInit(s, <<>>, Global), RootId, terms, {}), LAMBDA r :
        StateDeinit(Commit(r, Frame(r).ov)))

\* aml_parse(): the names of a table are kept only when all of it could be run
Parse(s, terms) ==
    Finally(Read("TermList", StateInit(s, <<>>, Global), RootId, terms, {}), LAMBDA r :
        StateDeinit(IF r.ok THEN Commit(r, Frame(r).ov) ELSE r))

LoadTable(terms) ==
  /\ phase = "loading" /\ loads <= Len(Ssdts)
  /\ \E r \in {Parse(st, terms)} :
         /\ st' = Settle(r)
         /\ phase' = IF r.ok THEN "loading" ELSE "failed"
         /\ last' = [op |-> "load", ok |-> r.ok]
  /\ loads' = loads + 1
  /\ UNCHANGED calls

\* The end of aml_init(): a reference that is still open is an error
PatchUp ==
  /\ phase = "loading" /\ loads > Len(Ssdts)
  /\ \E r \in {PatchUpResolveAll(st)} :
       LET ok == r.ok /\ r.patch = <<>>
       IN  /\ st' = Settle(r)
           /\ phase' = IF ok THEN "ready" ELSE "failed"
           /\ last' = [op |-> "patch", ok |-> ok]
  /\ UNCHANGED <<loads, calls>>

EvaluateObject(path, types, time) ==
  /\ phase = "ready" /\ calls > 0
  /\ \E o \in {FindPath(st, Global, RootId, path)} \ {Null} :
       \E r \in {Evaluate([st EXCEPT !.time = time], o, types)} :
         /\ st' = Settle(r)
         /\ last' = [op |-> "evaluate", ok |-> r.ok]
  /\ calls' = calls - 1
  /\ UNCHANGED <<loads, phase>>

Next ==
  \/ \E terms \in (IF loads = 0 THEN Dsdts ELSE {Ssdts[i] : i \in {loads} \cap DOMAIN Ssdts}) :
       LoadTable(terms)
  \/ PatchUp
  \/ \E e \in Evaluations, time \in Times : EvaluateObject(e.path, e.types, time)

Spec == Init /\ [][Next]_amlVars

----------------------------------------------------------------------------
(* Properties.                                                             *)

Names(s) == {o \in DOMAIN s.objs : Named(s, o)}
NameKeys(s) == {<<s.objs[o].parent, s.objs[o].name>> : o \in Names(s)}

RECURSIVE Reaches(_, _, _)
Reaches(s, o, seen) ==
    \/ o = RootId
    \/ /\ o \in Names(s) \ seen
       /\ s.objs[o].parent # Null
       /\ Reaches(s, s.objs[o].parent, seen \cup {o})

\* NamespaceSound: between two calls every name is in the global overlay, no two objects
\* have the same name in the same place, and the parents of each lead to the root: a table
\* or method that failed half way leaves no part of its own namespace behind
\* (namespace.c:395-537, aml.c:45, state.c:68).
NamespaceSound ==
    /\ Len(st.ovp) = 1 /\ st.frames = <<>>
    /\ \A o \in Names(st) : st.objs[o].ov = Global /\ Reaches(st, o, {})
    /\ Cardinality(NameKeys(st)) = Cardinality(Names(st))
    /\ \A i \in DOMAIN st.patch : st.patch[i] \in DOMAIN st.objs
         /\ Type(st, st.patch[i]) = "unresolved"

\* NamesKept: an evaluation, whether it succeeds or not, and a table that cannot be run
\* leave the names as they were.  A successful evaluation has given back the mutex of
\* every serialized method it has called (method.c:11-121, aml.c:20-56).
MethodLocks(s) ==
    SelectSeq(s.mtx, LAMBDA h : \E o \in Names(s) : Type(s, o) = "method" /\ Val(s, o).id = h.id)

NamesKept ==
    [][ /\ last'.op = "evaluate" \/ ~last'.ok => NameKeys(st') = NameKeys(st)
        /\ last'.op = "evaluate" /\ last'.ok => MethodLocks(st') = MethodLocks(st) ]_amlVars

\* FieldsExact: storing to a field of a region that preserves its surroundings changes
\* exactly the bits of the field to those of the value, whatever the access width and the
\* place of the field, and reading it gives the value back (field_unit.c:467-608).
Bit(n, k) == Slice(n, k, 1)
MemoryBit(s, space, k) == Bit(s.mem[space][k \div 8], k % 8)
Stored == {0, 1, 2, 5, Ones - 1, Ones}
FieldsExact ==
    \A o \in {p \in Names(st) : Type(st, p) = "fieldUnit"} :
        LET f == Val(st, o)
            region == Val(st, f.region)
            first == 8 * region.offset + f.at
        IN  f.kind = "field" /\ f.update = "preserve" /\ region.space \in Spaces
                /\ (f.lock => SyncLevel(st) = 0) =>
              \A x \in Stored :
                LET new == Create(st, "integer", x)
                    r == FieldUnitStore(new, f, new.v)
                    got == FieldUnitLoad(r, f, new.v)
                IN  /\ r.ok /\ got.ok /\ r.mtx = st.mtx
                    /\ \A sp \in Spaces : \A k \in 0 .. 8 * Cardinality(DOMAIN st.mem[sp]) - 1 :
                          MemoryBit(r, sp, k) =
                              IF sp = region.space /\ k \in first .. first + f.size - 1
                              THEN (IF k - first < IntBits THEN Bit(x, k - first) ELSE 0)
                              ELSE MemoryBit(st, sp, k)
                    /\ GetBits(got, new.v, 0, f.size) = x % 2^f.size
=============================================================================
