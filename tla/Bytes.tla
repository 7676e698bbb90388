------------------------------- MODULE Bytes -------------------------------
(***************************************************************************)
(* Bytes and decimal digits, as the protocols of the pumps and of the      *)
(* fiscal devices write and read them.  A packet is the sequence of its    *)
(* bytes; the code counts them from 0.                                     *)
(***************************************************************************)
EXTENDS Integers, SequencesExt

Byte == 0..255

\* packet.at(i)
At(packet, i) == packet[i + 1]

\* The k bytes from the i-th on.
Slice(packet, i, k) == SubSeq(packet, i + 1, i + k)

\* n, n >> 8, n >> 16, ... pushed into a vector of unsigned char.
LittleEndian(n, k) == [i \in 1..k |-> (n \div 256^(i - 1)) % 256]

\* The bytes joined with |= and << again, while the number fits.
FromLittleEndian(bytes) ==
    LET n == Len(bytes)
        value[k \in 0..n] == IF k = 0 THEN 0 ELSE 256 * value[k - 1] + bytes[n + 1 - k]
    IN  value[n]

\* The loops that take one digit after the other from a number: the first takes all
\* that is left above it, so that it need not be a digit.
Digits(n, k) ==
    [i \in 1..k |-> (\h30 + IF i = 1 THEN n \div 10^(k - 1)
                                     ELSE (n \div 10^(k - i)) % 10) % 256]

\* The loops that add up digits times powers of ten.
FromDigits(bytes) ==
    LET value[k \in 0..Len(bytes)] == IF k = 0 THEN 0 ELSE 10 * value[k - 1] + bytes[k] - \h30
    IN  value[Len(bytes)]

AreDigits(bytes) == \A i \in DOMAIN bytes : bytes[i] \in \h30..\h39

Repeat(b, k) == [i \in 1..k |-> b]
=============================================================================
