-------------------------------- MODULE Bytes --------------------------------
(***************************************************************************)
(* Reading and writing byte strings, as all marshalling and unmarshalling  *)
(* functions of the repository do it, and the compact sizes of             *)
(* compact_size_uint.rs.                                                   *)
(*                                                                         *)
(* A byte is a number below 256.  TLC's integers are too small for the u32 *)
(* and u64 fields, so an integer of 2k bytes is the sequence of its k      *)
(* 16-bit digits, least significant first.                                 *)
(***************************************************************************)
EXTENDS Integers, SequencesExt

Byte == 0 .. 255

\* A length, as the integer of n digits it is written as.
Number(n, len) == [i \in 1 .. n |-> IF i = 1 THEN len % 65536
                                    ELSE IF i = 2 THEN len \div 65536 ELSE 0]

\* The other way.  A number that TLC cannot count to is longer than any
\* message; Huge stands for it.
Huge == 2 ^ 30
Length(num) == IF \E i \in DOMAIN num : (i = 2 /\ num[i] >= 16384) \/ (i > 2 /\ num[i] # 0)
               THEN Huge ELSE num[1] + (IF Len(num) > 1 THEN num[2] * 65536 ELSE 0)

(***************************************************************************)
(* to_le_bytes, to_be_bytes and their inverses.                            *)
(***************************************************************************)
to_le_bytes(num) ==
    [i \in 1 .. 2 * Len(num) |-> LET d == num[(i + 1) \div 2] IN
                                 IF i % 2 = 1 THEN d % 256 ELSE d \div 256]

from_le_bytes(bytes) ==
    [i \in 1 .. Len(bytes) \div 2 |-> bytes[2 * i - 1] + 256 * bytes[2 * i]]

(***************************************************************************)
(* A field of a message: its name, its number of bytes, and whether it is  *)
(* a little endian integer, a big endian one or a string of bytes.  A      *)
(* layout is a sequence of fields.                                         *)
(***************************************************************************)
Field(name, bytes, form) == [name |-> name, bytes |-> bytes, form |-> form]

Decoded(form, bytes) == CASE form = "le" -> from_le_bytes(bytes)
                          [] form = "be" -> from_le_bytes(Reverse(bytes))
                          [] form = "raw" -> bytes

(***************************************************************************)
(* A read in progress: the bytes, the offset, the fields read so far, and  *)
(* "ok", "err" (the function has returned an error) or "panic" (a slice    *)
(* out of range).                                                          *)
(***************************************************************************)
ReadFrom(bytes) == [bytes |-> bytes, offset |-> 0, val |-> <<>>, st |-> "ok"]

Stop(r, st) == IF r.st = "ok" THEN [r EXCEPT !.st = st] ELSE r

\* An early return for lack of bytes.
Need(r, n) == IF Len(r.bytes) - r.offset < n THEN Stop(r, "err") ELSE r

Set(r, name, v) == IF r.st = "ok" THEN [r EXCEPT !.val = (name :> v) @@ @] ELSE r

ReadField(r, f) ==
    IF r.st # "ok" THEN r
    ELSE IF r.offset + f.bytes > Len(r.bytes) \/ f.bytes < 0 THEN Stop(r, "panic")
    ELSE LET slice == SubSeq(r.bytes, r.offset + 1, r.offset + f.bytes) IN
         [Set(r, f.name, Decoded(f.form, slice)) EXCEPT !.offset = @ + f.bytes]

Read(r, layout) == FoldLeft(ReadField, r, layout)

\* A structure inside another one.
ReadInner(r, name, Reader(_)) ==
    IF r.st # "ok" THEN r
    ELSE LET inner == Reader([r EXCEPT !.val = <<>>]) IN
         [inner EXCEPT !.val = (name :> inner.val) @@ r.val]

\* n of them in a row, up to the first that fails.
ReadTimes(r, name, n, Reader(_)) ==
    LET RECURSIVE more(_, _)
        more(s, k) ==
            IF s.st # "ok" \/ k = 0 THEN s
            ELSE LET t == ReadInner(s, "next", Reader) IN
                 more(IF t.st # "ok" THEN t
                      ELSE [t EXCEPT !.val = [s.val EXCEPT ![name] = Append(@, t.val["next"])]],
                      k - 1)
    IN more(Set(r, name, <<>>), n)

(***************************************************************************)
(* CompactSizeUint: one byte below 253, else a first byte and 2, 4 or 8    *)
(* more.  The structure keeps the bytes.                                   *)
(***************************************************************************)
CompactSizeUint(num) ==
    IF num[3] # 0 \/ num[4] # 0 THEN <<255>> \o to_le_bytes(num)
    ELSE IF num[2] # 0 THEN <<254>> \o to_le_bytes(SubSeq(num, 1, 2))
    ELSE IF num[1] >= 253 THEN <<253>> \o to_le_bytes(SubSeq(num, 1, 1))
    ELSE <<num[1]>>

CompactSize(len) == CompactSizeUint(Number(4, len))

\* The bytes that follow a first byte.
BytesAfter(first) == CASE first = 253 -> 2 [] first = 254 -> 4 [] first = 255 -> 8
                       [] OTHER -> 0

decoded_value(compact) ==
    LET n == BytesAfter(compact[1])
        bytes == IF n = 0 THEN <<compact[1], 0>> ELSE SubSeq(compact, 2, n + 1)
    IN from_le_bytes(bytes \o [i \in 1 .. 8 - Len(bytes) |-> 0])

ReadCompactSize(r, name) ==
    LET s == Need(r, 1) IN
    IF s.st # "ok" THEN s
    ELSE ReadField(s, Field(name, 1 + BytesAfter(s.bytes[s.offset + 1]), "raw"))

\* The count just read under that name.
Count(r, name) == IF r.st = "ok" THEN Length(decoded_value(r.val[name])) ELSE 0
=============================================================================
