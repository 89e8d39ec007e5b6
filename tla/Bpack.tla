------------------------------- MODULE Bpack -------------------------------
(***************************************************************************)
(* The wire format of communication/bpack.c on the byte buffer of          *)
(* simple-memory-buffer.c: what bpack writes for an item of a format       *)
(* string, and what bunpack makes of the bytes it finds.                   *)
(*                                                                         *)
(* The sizes are parameters.  The code has Base = 256, IntBytes = 8,       *)
(* ExpBytes = 2, MantissaBits = 52, MinExp = -1021 and MaxExp = 1024.      *)
(***************************************************************************)
EXTENDS Integers, SequencesExt

CONSTANTS
    Base,           \* the number of values of a byte
    IntBytes,       \* sizeof(int64_t)
    ExpBytes,       \* sizeof(int16_t)
    MantissaBits,   \* the bits of a double's significand after the leading one
    MinExp,         \* what frexp says of the smallest normal double
    MaxExp,         \* what frexp says of the largest double
    MaxAlloc        \* the most bytes malloc ever has

\* b to the n-th.
Power(b, n) ==
    LET to[i \in Nat] == IF i = 0 THEN 1 ELSE b * to[i - 1]
    IN to[n]

\* What n bytes hold, with a sign.
Signed(n) == -(Power(Base, n) \div 2) .. Power(Base, n) \div 2 - 1

ASSUME SizesAssumption ==
    /\ Base \in Nat /\ Base >= 16
    /\ IntBytes \in Nat \ {0} /\ ExpBytes \in Nat \ {0}
    /\ MantissaBits \in Nat /\ Power(2, MantissaBits) < Power(Base, IntBytes)
    /\ MinExp \in Int /\ MaxExp \in Int /\ MinExp <= MaxExp
    /\ MinExp - MantissaBits \in Signed(ExpBytes) /\ MaxExp \in Signed(ExpBytes)
    /\ MaxAlloc \in 0 .. Power(Base, IntBytes) - 1

Byte == 0 .. Base - 1

----------------------------------------------------------------------------
(* The buffer: reads and writes share one position, a write at the end     *)
(* makes the buffer one byte longer.                                       *)

\* Mutant: the position starts after the first byte.
NewAtOne(bytes) == [bytes |-> bytes, position |-> 1]

\* simple_memory_buffer_new copies the bytes it is given.
New(bytes) == [bytes |-> bytes, position |-> 0]

WriteByte(ds, byte) ==
    [bytes |-> IF ds.position >= Len(ds.bytes) THEN Append(ds.bytes, byte)
               ELSE [ds.bytes EXCEPT ![ds.position + 1] = byte],
     position |-> ds.position + 1]

WriteBytes(ds, bytes) ==
    LET after[i \in 0 .. Len(bytes)] ==
            IF i = 0 THEN ds ELSE WriteByte(after[i - 1], bytes[i])
    IN after[Len(bytes)]

\* n reads meet no end of file.
Readable(ds, n) == ds.position + n <= Len(ds.bytes)

\* The n bytes that follow the next `skip` ones.
Ahead(ds, skip, n) == SubSeq(ds.bytes, ds.position + skip + 1, ds.position + skip + n)

----------------------------------------------------------------------------
(* Integers.  The host is little-endian: htobe64 reverses its bytes.       *)

ByteOrder(bytes, little) == IF little THEN bytes ELSE Reverse(bytes)

IntToBytes(v, n, little) ==
    ByteOrder([i \in 1 .. n |-> ((v % Power(Base, n)) \div Power(Base, i - 1)) % Base], little)

BytesToUnsigned(bytes, little) ==
    LET host == ByteOrder(bytes, little)
        sum[i \in 0 .. Len(bytes)] ==
            IF i = 0 THEN 0 ELSE sum[i - 1] + host[i] * Power(Base, i - 1)
    IN sum[Len(bytes)]

\* Mutant: the value is taken for an unsigned one.
BytesToIntUnsigned(bytes, little) == BytesToUnsigned(bytes, little)

\* Two's complement.
BytesToInt(bytes, little) ==
    LET u == BytesToUnsigned(bytes, little) IN
    IF 2 * u < Power(Base, Len(bytes)) THEN u ELSE u - Power(Base, Len(bytes))

Int64 == Signed(IntBytes)

----------------------------------------------------------------------------
(* Doubles.  frexp and ldexp are external: a finite double is              *)
(* (1 + mantissa / Leading) / 2 * 2 ^ exponent, and below MinExp its last  *)
(* bits are zero.                                                          *)

Leading == Power(2, MantissaBits)

\* What the last bit of a double with this exponent counts.
Unit(exponent) == IF exponent >= MinExp THEN 1 ELSE Power(2, MinExp - exponent)

Double ==
    [class : {"nan", "inf", "zero"}, negative : BOOLEAN] \cup
    {d \in [class : {"finite"}, negative : BOOLEAN, mantissa : 0 .. Leading - 1,
            exponent : MinExp - MantissaBits .. MaxExp] :
        (Leading + d.mantissa) % Unit(d.exponent) = 0}

\* ldexp rounds to the nearest double, ties to even; 0 and infinity set errno.
Rounded(mantissa, exponent) ==
    LET unit == Unit(exponent)
        low == (Leading + mantissa) % unit
        high == (Leading + mantissa) \div unit
        up == 2 * low > unit \/ (2 * low = unit /\ high % 2 = 1)
    IN (high + (IF up THEN 1 ELSE 0)) * unit

Representable(mantissa, exponent) ==
    /\ MinExp - exponent <= MantissaBits + 1
    /\ Rounded(mantissa, exponent) # 0
    /\ exponent < MaxExp \/ (exponent = MaxExp /\ Rounded(mantissa, exponent) < 2 * Leading)

Ldexp(negative, mantissa, exponent) ==
    LET n == Rounded(mantissa, exponent) IN
    IF n = 2 * Leading
    THEN [class |-> "finite", negative |-> negative, mantissa |-> 0, exponent |-> exponent + 1]
    ELSE [class |-> "finite", negative |-> negative, mantissa |-> n - Leading, exponent |-> exponent]

DOUBLE_NEG == 1
DOUBLE_NAN == 2
DOUBLE_INF == 4
DOUBLE_ZERO == 8

Flag == [nan |-> DOUBLE_NAN, inf |-> DOUBLE_INF, zero |-> DOUBLE_ZERO, finite |-> 0]

\* "there is no -NaN"
SignByte(d) == Flag[d.class] + (IF d.negative /\ d.class # "nan" THEN DOUBLE_NEG ELSE 0)

----------------------------------------------------------------------------
(* bpack: what one item of a format adds to the buffer. *)

Items == {"l", "d", "s", "b"}

\* A blob is its bytes; a string is the bytes before its NUL.
Blob(val, little) == IntToBytes(Len(val), IntBytes, little) \o val

\* The values that an item's type has: what fits into memory, a string with its NUL.
Values(item) ==
    CASE item = "l" -> Int64
      [] item = "d" -> Double
      [] item = "b" -> {bytes \in Seq(Byte) : Len(bytes) <= MaxAlloc}
      [] item = "s" -> {bytes \in Seq(Byte \ {0}) : Len(bytes) < MaxAlloc}

Packed(item, val, little) ==
    CASE item = "l" -> IntToBytes(val, IntBytes, little)
      [] item = "d" -> <<SignByte(val)>> \o
            (IF val.class # "finite" THEN <<>>
             ELSE IntToBytes(val.exponent, ExpBytes, little)
                  \o IntToBytes(val.mantissa, IntBytes, little))
      [] item \in {"s", "b"} -> Blob(val, little)

----------------------------------------------------------------------------
(* bunpack: what one item of a format reads.  On failure the target keeps  *)
(* its value, and no caller reads on.                                      *)

Fails(code) == [code |-> code, val |-> <<>>, length |-> 0]
Gives(val, length) == [code |-> "OK", val |-> val, length |-> length]

UnpackedInt(ds, little) ==
    IF Readable(ds, IntBytes)
    THEN Gives(BytesToInt(Ahead(ds, 0, IntBytes), little), IntBytes)
    ELSE Fails("BPACK_READ")

UnpackedFinite(ds, negative, little) ==
    LET exponent == BytesToInt(Ahead(ds, 1, ExpBytes), little)
        mantissa == BytesToUnsigned(Ahead(ds, 1 + ExpBytes, IntBytes), little)
        length == 1 + ExpBytes + IntBytes
    IN IF ~Readable(ds, length) THEN Fails("BPACK_READ")
       ELSE IF mantissa < Leading /\ Representable(mantissa, exponent)
       THEN Gives(Ldexp(negative, mantissa, exponent), length)
       ELSE Fails("BUNPACK_INVALID_DATA")

\* Mutant: the sign bit is not looked at before NaN is accepted.
UnpackedDoubleNegNaN(ds, little) ==
    LET sign == Ahead(ds, 0, 1)[1]
        negative == sign % 2 = DOUBLE_NEG
        class == {c \in DOMAIN Flag : Flag[c] = sign - (IF negative THEN DOUBLE_NEG ELSE 0)}
    IN IF ~Readable(ds, 1) THEN Fails("BPACK_READ")
       ELSE IF class = {} THEN Fails("BUNPACK_INVALID_DATA")
       ELSE IF class = {"finite"} THEN UnpackedFinite(ds, negative, little)
       ELSE Gives([class |-> CHOOSE c \in class : TRUE, negative |-> negative], 1)

UnpackedDouble(ds, little) ==
    LET sign == Ahead(ds, 0, 1)[1]
        negative == sign % 2 = DOUBLE_NEG
        class == {c \in DOMAIN Flag : Flag[c] = sign - (IF negative THEN DOUBLE_NEG ELSE 0)}
    IN IF ~Readable(ds, 1) THEN Fails("BPACK_READ")
       ELSE IF class = {} \/ (class = {"nan"} /\ negative) THEN Fails("BUNPACK_INVALID_DATA")
       ELSE IF class = {"finite"} THEN UnpackedFinite(ds, negative, little)
       ELSE Gives([class |-> CHOOSE c \in class : TRUE, negative |-> negative], 1)

\* Mutant: a blob that ends early is taken for what there is of it.
UnpackedBlobShort(ds, little) ==
    LET size == BytesToUnsigned(Ahead(ds, 0, IntBytes), little)
        there == Len(ds.bytes) - ds.position - IntBytes
    IN IF ~Readable(ds, IntBytes) THEN Fails("BPACK_READ")
       ELSE IF size > MaxAlloc THEN Fails("MEMORY")
       ELSE IF size > there THEN Gives(Ahead(ds, IntBytes, there), IntBytes + there)
       ELSE Gives(Ahead(ds, IntBytes, size), IntBytes + size)

\* The length is unsigned, so that no memory is found for a negative one.
UnpackedBlob(ds, little) ==
    LET size == BytesToUnsigned(Ahead(ds, 0, IntBytes), little) IN
    IF ~Readable(ds, IntBytes) THEN Fails("BPACK_READ")
    ELSE IF size > MaxAlloc THEN Fails("MEMORY")
    ELSE IF Readable(ds, IntBytes + size) THEN Gives(Ahead(ds, IntBytes, size), IntBytes + size)
    ELSE Fails("BPACK_READ")

\* A C string ends at its first NUL; bunpack makes room for one behind the last byte.
CString(bytes) ==
    SubSeq(bytes, 1, CHOOSE n \in 0 .. Len(bytes) :
        /\ \A i \in 1 .. n : bytes[i] # 0
        /\ n < Len(bytes) => bytes[n + 1] = 0)

Unpacked(item, ds, little) ==
    CASE item = "l" -> UnpackedInt(ds, little)
      [] item = "d" -> UnpackedDouble(ds, little)
      [] item = "b" -> UnpackedBlob(ds, little)
      [] item = "s" ->
            LET blob == UnpackedBlob(ds, little) IN
            IF blob.code # "OK" THEN blob
            ELSE IF Len(blob.val) < MaxAlloc THEN [blob EXCEPT !.val = CString(@)]
            ELSE Fails("MEMORY")
=============================================================================
