-------------------------- MODULE Dialogue_proofs --------------------------
(***************************************************************************)
(* The line of the pumps, for every number of pumps, sales and replies.    *)
(*                                                                         *)
(* What a request or a reply is made of is read back out of it: the digits *)
(* and bytes of numbers first, then parts of packets, then the packets of  *)
(* each protocol.  The invariant DialogueInv of the line rests on it.      *)
(***************************************************************************)
EXTENDS Dialogue, TLAPS

\* v counts the first n digits of s together.
AddsDigits(s, n, v) ==
    v = [k \in 0..n |-> IF k = 0 THEN 0 ELSE 10 * v[k - 1] + s[k] - \h30]

\* Where n digits can be counted together, so can n + 1.
LEMMA OneMoreDigit ==
    ASSUME NEW s, NEW n \in Nat, \E v : AddsDigits(s, n, v)
    PROVE  \E v : AddsDigits(s, n + 1, v)
  <1>1. PICK v : AddsDigits(s, n, v)
    OBVIOUS
  <1> DEFINE w == [k \in 0..(n + 1) |-> IF k = n + 1 THEN 10 * v[n] + s[n + 1] - \h30 ELSE v[k]]
  <1>2. w[0] = 0 /\ \A k \in 1..n : w[k] = 10 * w[k - 1] + s[k] - \h30
    BY <1>1 DEF AddsDigits
  <1>3. w[n + 1] = 10 * w[n] + s[n + 1] - \h30
    OBVIOUS
  <1>4. \A k \in 0..(n + 1) : w[k] = IF k = 0 THEN 0 ELSE 10 * w[k - 1] + s[k] - \h30
    <2> HIDE DEF w
    <2>1. ASSUME NEW k \in 0..(n + 1)
          PROVE  w[k] = IF k = 0 THEN 0 ELSE 10 * w[k - 1] + s[k] - \h30
      <3>1. CASE k = 0
        BY <1>2, <3>1
      <3>2. CASE k \in 1..n
        BY <1>2, <3>2
      <3>3. CASE k = n + 1
        <4>1. k # 0 /\ k - 1 = n
          BY <3>3
        <4> QED
          BY <1>3, <3>3, <4>1
      <3> QED
        BY <3>1, <3>2, <3>3
    <2> QED
      BY <2>1
  <1>5. AddsDigits(s, n + 1, w)
    <2> w = [k \in 0..(n + 1) |-> w[k]]
      OBVIOUS
    <2> HIDE DEF w
    <2> QED
      BY <1>4 DEF AddsDigits
  <1> QED
    BY <1>5

\* v has the values of the digits of s on the way from the first to the last.
DigitValues(s, v) ==
    /\ v[0] = 0
    /\ \A k \in 1..Len(s) : v[k] = 10 * v[k - 1] + s[k] - \h30
    /\ FromDigits(s) = v[Len(s)]

\* FromDigits of up to ten bytes is the value they add up to, digit by digit.
LEMMA DigitsAdded ==
    ASSUME NEW s, Len(s) \in 0..10
    PROVE  \E v : DigitValues(s, v)
  <1> DEFINE Ok(n) == \E v : AddsDigits(s, n, v)
  <1>0. Ok(0)
    <2>1. AddsDigits(s, 0, [k \in 0..0 |-> 0])
      BY DEF AddsDigits
    <2> QED
      BY <2>1
  <1>n. \A n \in Nat : Ok(n) => Ok(n + 1)
    BY OneMoreDigit
  <1> HIDE DEF Ok
  <1>1. Ok(0) /\ Ok(1) /\ Ok(2) /\ Ok(3) /\ Ok(4) /\ Ok(5)
    BY <1>0, <1>n, 0 + 1 = 1, 1 + 1 = 2, 2 + 1 = 3, 3 + 1 = 4, 4 + 1 = 5
  <1>2. Ok(6) /\ Ok(7) /\ Ok(8) /\ Ok(9) /\ Ok(10)
    BY <1>1, <1>n, 5 + 1 = 6, 6 + 1 = 7, 7 + 1 = 8, 8 + 1 = 9, 9 + 1 = 10
  <1>3. Ok(Len(s))
    <2> Len(s) \in {0, 1, 2, 3, 4, 5, 6, 7, 8, 9, 10}
      OBVIOUS
    <2> QED
      BY <1>1, <1>2
  <1> USE DEF Ok
  <1> DEFINE v == CHOOSE v : AddsDigits(s, Len(s), v)
  <1>4. FromDigits(s) = v[Len(s)]
    BY DEF FromDigits, AddsDigits
  <1>5. AddsDigits(s, Len(s), v)
    BY <1>3
  <1> HIDE DEF v
  <1>6. v[0] = 0 /\ \A k \in 1..Len(s) : v[k] = 10 * v[k - 1] + s[k] - \h30
    BY <1>5 DEF AddsDigits
  <1> QED
    BY <1>4, <1>6 DEF DigitValues

\* Two bytes that are the digits of a number are read as this number.
LEMMA TwoDigits ==
    ASSUME NEW s, Len(s) = 2, NEW n \in Nat, n < 2080,
           \A i \in 1..2 : s[i] = Digits(n, 2)[i]
    PROVE  FromDigits(s) = n
  <1>1. PICK v : DigitValues(s, v)
    BY DigitsAdded
  <1>2. s[1] = 48 + (n \div 10)
    BY SMT DEF Digits
  <1>3. v[1] = n \div 10
    BY <1>1, <1>2, SMT DEF DigitValues
  <1>4. v[2] = n
    <2>1. s[2] = 48 + (n % 10)
      BY SMT DEF Digits
    <2>2. v[2] = 10 * v[1] + s[2] - 48
      BY <1>1, SMT DEF DigitValues
    <2>3. 10 * (n \div 10) + (n % 10) = n
      BY SMT
    <2> QED
      BY <1>3, <2>1, <2>2, <2>3, SMT
  <1> QED
    BY <1>1, <1>4, SMT DEF DigitValues

\* So are four, a price.
LEMMA FourDigits ==
    ASSUME NEW s, Len(s) = 4, NEW n \in Nat, n < 208000,
           \A i \in 1..4 : s[i] = Digits(n, 4)[i]
    PROVE  FromDigits(s) = n
  <1>1. PICK v : DigitValues(s, v)
    BY DigitsAdded
  <1>2. s[1] = 48 + (n \div 1000)
    BY SMT DEF Digits
  <1>3. v[1] = n \div 1000
    BY <1>1, <1>2, SMT DEF DigitValues
  <1>4. v[2] = n \div 100
    <2>1. s[2] = 48 + ((n \div 100) % 10)
      BY SMT DEF Digits
    <2>2. v[2] = 10 * v[1] + s[2] - 48
      BY <1>1, SMT DEF DigitValues
    <2>3. 10 * (n \div 1000) + ((n \div 100) % 10) = n \div 100
      BY SMT
    <2> QED
      BY <1>3, <2>1, <2>2, <2>3, SMT
  <1>5. v[3] = n \div 10
    <2>1. s[3] = 48 + ((n \div 10) % 10)
      BY SMT DEF Digits
    <2>2. v[3] = 10 * v[2] + s[3] - 48
      BY <1>1, SMT DEF DigitValues
    <2>3. 10 * (n \div 100) + ((n \div 10) % 10) = n \div 10
      BY SMT
    <2> QED
      BY <1>4, <2>1, <2>2, <2>3, SMT
  <1>6. v[4] = n
    <2>1. s[4] = 48 + (n % 10)
      BY SMT DEF Digits
    <2>2. v[4] = 10 * v[3] + s[4] - 48
      BY <1>1, SMT DEF DigitValues
    <2>3. 10 * (n \div 10) + (n % 10) = n
      BY SMT
    <2> QED
      BY <1>5, <2>1, <2>2, <2>3, SMT
  <1> QED
    BY <1>1, <1>6, SMT DEF DigitValues

\* So are six, a volume in units of 10 ml or an amount.
LEMMA SixDigits ==
    ASSUME NEW s, Len(s) = 6, NEW n \in Nat, n < 20800000,
           \A i \in 1..6 : s[i] = Digits(n, 6)[i]
    PROVE  FromDigits(s) = n
  <1>1. PICK v : DigitValues(s, v)
    BY DigitsAdded
  <1>2. s[1] = 48 + (n \div 100000)
    BY SMT DEF Digits
  <1>3. v[1] = n \div 100000
    BY <1>1, <1>2, SMT DEF DigitValues
  <1>4. v[2] = n \div 10000
    <2>1. s[2] = 48 + ((n \div 10000) % 10)
      BY SMT DEF Digits
    <2>2. v[2] = 10 * v[1] + s[2] - 48
      BY <1>1, SMT DEF DigitValues
    <2>3. 10 * (n \div 100000) + ((n \div 10000) % 10) = n \div 10000
      BY SMT
    <2> QED
      BY <1>3, <2>1, <2>2, <2>3, SMT
  <1>5. v[3] = n \div 1000
    <2>1. s[3] = 48 + ((n \div 1000) % 10)
      BY SMT DEF Digits
    <2>2. v[3] = 10 * v[2] + s[3] - 48
      BY <1>1, SMT DEF DigitValues
    <2>3. 10 * (n \div 10000) + ((n \div 1000) % 10) = n \div 1000
      BY SMT
    <2> QED
      BY <1>4, <2>1, <2>2, <2>3, SMT
  <1>6. v[4] = n \div 100
    <2>1. s[4] = 48 + ((n \div 100) % 10)
      BY SMT DEF Digits
    <2>2. v[4] = 10 * v[3] + s[4] - 48
      BY <1>1, SMT DEF DigitValues
    <2>3. 10 * (n \div 1000) + ((n \div 100) % 10) = n \div 100
      BY SMT
    <2> QED
      BY <1>5, <2>1, <2>2, <2>3, SMT
  <1>7. v[5] = n \div 10
    <2>1. s[5] = 48 + ((n \div 10) % 10)
      BY SMT DEF Digits
    <2>2. v[5] = 10 * v[4] + s[5] - 48
      BY <1>1, SMT DEF DigitValues
    <2>3. 10 * (n \div 100) + ((n \div 10) % 10) = n \div 10
      BY SMT
    <2> QED
      BY <1>6, <2>1, <2>2, <2>3, SMT
  <1>8. v[6] = n
    <2>1. s[6] = 48 + (n % 10)
      BY SMT DEF Digits
    <2>2. v[6] = 10 * v[5] + s[6] - 48
      BY <1>1, SMT DEF DigitValues
    <2>3. 10 * (n \div 10) + (n % 10) = n
      BY SMT
    <2> QED
      BY <1>7, <2>1, <2>2, <2>3, SMT
  <1> QED
    BY <1>1, <1>8, SMT DEF DigitValues

\* So are ten, a total.
LEMMA TenDigits ==
    ASSUME NEW s, Len(s) = 10, NEW n \in Nat, n < 2147483648,
           \A i \in 1..10 : s[i] = Digits(n, 10)[i]
    PROVE  FromDigits(s) = n
  <1>1. PICK v : DigitValues(s, v)
    BY DigitsAdded
  <1>2. s[1] = 48 + (n \div 1000000000)
    <2>1. n \div 1000000000 \in 0..2
      BY SMT
    <2>2. s[1] = (48 + (n \div 1000000000)) % 256
      BY SMT DEF Digits
    <2> QED
      BY <2>1, <2>2, SMT
  <1>3. v[1] = n \div 1000000000
    BY <1>1, <1>2, SMT DEF DigitValues
  <1>4. v[2] = n \div 100000000
    <2>1. s[2] = 48 + ((n \div 100000000) % 10)
      BY SMT DEF Digits
    <2>2. v[2] = 10 * v[1] + s[2] - 48
      BY <1>1, SMT DEF DigitValues
    <2>3. 10 * (n \div 1000000000) + ((n \div 100000000) % 10) = n \div 100000000
      BY SMT
    <2> QED
      BY <1>3, <2>1, <2>2, <2>3, SMT
  <1>5. v[3] = n \div 10000000
    <2>1. s[3] = 48 + ((n \div 10000000) % 10)
      BY SMT DEF Digits
    <2>2. v[3] = 10 * v[2] + s[3] - 48
      BY <1>1, SMT DEF DigitValues
    <2>3. 10 * (n \div 100000000) + ((n \div 10000000) % 10) = n \div 10000000
      BY SMT
    <2> QED
      BY <1>4, <2>1, <2>2, <2>3, SMT
  <1>6. v[4] = n \div 1000000
    <2>1. s[4] = 48 + ((n \div 1000000) % 10)
      BY SMT DEF Digits
    <2>2. v[4] = 10 * v[3] + s[4] - 48
      BY <1>1, SMT DEF DigitValues
    <2>3. 10 * (n \div 10000000) + ((n \div 1000000) % 10) = n \div 1000000
      BY SMT
    <2> QED
      BY <1>5, <2>1, <2>2, <2>3, SMT
  <1>7. v[5] = n \div 100000
    <2>1. s[5] = 48 + ((n \div 100000) % 10)
      BY SMT DEF Digits
    <2>2. v[5] = 10 * v[4] + s[5] - 48
      BY <1>1, SMT DEF DigitValues
    <2>3. 10 * (n \div 1000000) + ((n \div 100000) % 10) = n \div 100000
      BY SMT
    <2> QED
      BY <1>6, <2>1, <2>2, <2>3, SMT
  <1>8. v[6] = n \div 10000
    <2>1. s[6] = 48 + ((n \div 10000) % 10)
      BY SMT DEF Digits
    <2>2. v[6] = 10 * v[5] + s[6] - 48
      BY <1>1, SMT DEF DigitValues
    <2>3. 10 * (n \div 100000) + ((n \div 10000) % 10) = n \div 10000
      BY SMT
    <2> QED
      BY <1>7, <2>1, <2>2, <2>3, SMT
  <1>9. v[7] = n \div 1000
    <2>1. s[7] = 48 + ((n \div 1000) % 10)
      BY SMT DEF Digits
    <2>2. v[7] = 10 * v[6] + s[7] - 48
      BY <1>1, SMT DEF DigitValues
    <2>3. 10 * (n \div 10000) + ((n \div 1000) % 10) = n \div 1000
      BY SMT
    <2> QED
      BY <1>8, <2>1, <2>2, <2>3, SMT
  <1>10. v[8] = n \div 100
    <2>1. s[8] = 48 + ((n \div 100) % 10)
      BY SMT DEF Digits
    <2>2. v[8] = 10 * v[7] + s[8] - 48
      BY <1>1, SMT DEF DigitValues
    <2>3. 10 * (n \div 1000) + ((n \div 100) % 10) = n \div 100
      BY SMT
    <2> QED
      BY <1>9, <2>1, <2>2, <2>3, SMT
  <1>11. v[9] = n \div 10
    <2>1. s[9] = 48 + ((n \div 10) % 10)
      BY SMT DEF Digits
    <2>2. v[9] = 10 * v[8] + s[9] - 48
      BY <1>1, SMT DEF DigitValues
    <2>3. 10 * (n \div 100) + ((n \div 10) % 10) = n \div 10
      BY SMT
    <2> QED
      BY <1>10, <2>1, <2>2, <2>3, SMT
  <1>12. v[10] = n
    <2>1. s[10] = 48 + (n % 10)
      BY SMT DEF Digits
    <2>2. v[10] = 10 * v[9] + s[10] - 48
      BY <1>1, SMT DEF DigitValues
    <2>3. 10 * (n \div 10) + (n % 10) = n
      BY SMT
    <2> QED
      BY <1>11, <2>1, <2>2, <2>3, SMT
  <1> QED
    BY <1>1, <1>12, SMT DEF DigitValues

\* v joins the first n of the bytes of s, counted from the last.
JoinsBytes(s, n, v) ==
    v = [k \in 0..n |-> IF k = 0 THEN 0 ELSE 256 * v[k - 1] + s[Len(s) + 1 - k]]

\* Where n bytes can be joined, so can n + 1.
LEMMA OneMoreByte ==
    ASSUME NEW s, NEW n \in Nat, \E v : JoinsBytes(s, n, v)
    PROVE  \E v : JoinsBytes(s, n + 1, v)
  <1>1. PICK v : JoinsBytes(s, n, v)
    OBVIOUS
  <1> DEFINE w == [k \in 0..(n + 1) |-> IF k = n + 1 THEN 256 * v[n] + s[Len(s) + 1 - (n + 1)]
                                        ELSE v[k]]
  <1>2. w[0] = 0 /\ \A k \in 1..n : w[k] = 256 * w[k - 1] + s[Len(s) + 1 - k]
    BY <1>1 DEF JoinsBytes
  <1>3. w[n + 1] = 256 * w[n] + s[Len(s) + 1 - (n + 1)]
    OBVIOUS
  <1>4. w = [k \in 0..(n + 1) |-> w[k]]
    OBVIOUS
  <1> HIDE DEF w
  <1>5. ASSUME NEW k \in 0..(n + 1)
        PROVE  w[k] = IF k = 0 THEN 0 ELSE 256 * w[k - 1] + s[Len(s) + 1 - k]
    <2>1. CASE k = 0
      BY <1>2, <2>1
    <2>2. CASE k \in 1..n
      BY <1>2, <2>2
    <2>3. CASE k = n + 1
      <3>1. k # 0 /\ k - 1 = n
        BY <2>3
      <3> QED
        BY <1>3, <2>3, <3>1
    <2> QED
      BY <2>1, <2>2, <2>3
  <1>6. JoinsBytes(s, n + 1, w)
    BY <1>4, <1>5 DEF JoinsBytes
  <1> QED
    BY <1>6

\* FromLittleEndian of two to four bytes joins them from the last to the first.
LEMMA BytesJoined ==
    ASSUME NEW s, Len(s) \in 2..4
    PROVE  \E v : /\ v[0] = 0
                  /\ \A k \in 1..Len(s) : v[k] = 256 * v[k - 1] + s[Len(s) + 1 - k]
                  /\ FromLittleEndian(s) = v[Len(s)]
  <1> DEFINE Ok(n) == \E v : JoinsBytes(s, n, v)
  <1>0. Ok(0)
    <2>1. JoinsBytes(s, 0, [k \in 0..0 |-> 0])
      BY DEF JoinsBytes
    <2> QED
      BY <2>1
  <1>n. \A n \in Nat : Ok(n) => Ok(n + 1)
    BY OneMoreByte
  <1> HIDE DEF Ok
  <1>1. Ok(1) /\ Ok(2) /\ Ok(3) /\ Ok(4)
    BY <1>0, <1>n, 0 + 1 = 1, 1 + 1 = 2, 2 + 1 = 3, 3 + 1 = 4
  <1>2. Ok(Len(s))
    <2> Len(s) \in {2, 3, 4}
      OBVIOUS
    <2> QED
      BY <1>1
  <1> USE DEF Ok
  <1> DEFINE v == CHOOSE v : JoinsBytes(s, Len(s), v)
  <1>4. FromLittleEndian(s) = v[Len(s)]
    BY DEF FromLittleEndian, JoinsBytes
  <1>5. JoinsBytes(s, Len(s), v)
    BY <1>2
  <1> HIDE DEF v
  <1>6. v[0] = 0 /\ \A k \in 1..Len(s) : v[k] = 256 * v[k - 1] + s[Len(s) + 1 - k]
    BY <1>5 DEF JoinsBytes
  <1> QED
    BY <1>4, <1>6

\* Two bytes that are those of a number are read as this number.
LEMMA TwoBytes ==
    ASSUME NEW s, Len(s) = 2, NEW n \in Nat, n < 65536,
           \A i \in 1..2 : s[i] = LittleEndian(n, 2)[i]
    PROVE  FromLittleEndian(s) = n
  <1>1. PICK v : /\ v[0] = 0
                 /\ \A k \in 1..2 : v[k] = 256 * v[k - 1] + s[3 - k]
                 /\ FromLittleEndian(s) = v[2]
    BY BytesJoined, Len(s) \in 2..4
  <1>2. s[1] = n % 256 /\ s[2] = n \div 256
    BY SMT DEF LittleEndian
  <1>3. v[1] = s[2] /\ v[2] = 256 * v[1] + s[1]
    BY <1>1, <1>2
  <1> QED
    BY <1>1, <1>2, <1>3

\* So are three.
LEMMA ThreeBytes ==
    ASSUME NEW s, Len(s) = 3, NEW n \in Nat, n < 16777216,
           \A i \in 1..3 : s[i] = LittleEndian(n, 3)[i]
    PROVE  FromLittleEndian(s) = n
  <1>1. PICK v : /\ v[0] = 0
                 /\ \A k \in 1..3 : v[k] = 256 * v[k - 1] + s[4 - k]
                 /\ FromLittleEndian(s) = v[3]
    BY BytesJoined, Len(s) \in 2..4
  <1>2. s[1] = n % 256 /\ s[2] = (n \div 256) % 256 /\ s[3] = n \div 65536
    BY SMT DEF LittleEndian
  <1>3. v[1] = s[3] /\ v[2] = 256 * v[1] + s[2] /\ v[3] = 256 * v[2] + s[1]
    BY <1>1, <1>2
  <1>4. v[2] = n \div 256
    BY <1>2, <1>3
  <1> QED
    BY <1>1, <1>2, <1>3, <1>4

\* So are four.
LEMMA FourBytes ==
    ASSUME NEW s, Len(s) = 4, NEW n \in Nat, n < 2147483648,
           \A i \in 1..4 : s[i] = LittleEndian(n, 4)[i]
    PROVE  FromLittleEndian(s) = n
  <1>1. PICK v : /\ v[0] = 0
                 /\ \A k \in 1..4 : v[k] = 256 * v[k - 1] + s[5 - k]
                 /\ FromLittleEndian(s) = v[4]
    BY BytesJoined, Len(s) \in 2..4
  <1>2. /\ s[1] = n % 256 /\ s[2] = (n \div 256) % 256 /\ s[3] = (n \div 65536) % 256
        /\ s[4] = n \div 16777216
    BY SMT DEF LittleEndian
  <1>3. /\ v[1] = s[4] /\ v[2] = 256 * v[1] + s[3]
        /\ v[3] = 256 * v[2] + s[2] /\ v[4] = 256 * v[3] + s[1]
    BY <1>1, <1>2
  <1>4. v[2] = n \div 65536
    BY <1>2, <1>3
  <1>5. v[3] = n \div 256
    BY <1>2, <1>3, <1>4
  <1> QED
    BY <1>1, <1>2, <1>3, <1>5

\* Powers of ten and of 256.
LEMMA TenTo ==
    ASSUME NEW j \in 0..9 PROVE 10^j \in Nat /\ 10^j > 0
  <1>0. CASE j = 0
    <2>1. 10^0 = 1
      BY SMT
    <2> QED
      BY <1>0, <2>1, SMT
  <1>1. CASE j = 1
    <2>1. 10^1 = 10
      BY SMT
    <2> QED
      BY <1>1, <2>1, SMT
  <1>2. CASE j = 2
    <2>1. 10^2 = 100
      BY SMT
    <2> QED
      BY <1>2, <2>1, SMT
  <1>3. CASE j = 3
    <2>1. 10^3 = 1000
      BY SMT
    <2> QED
      BY <1>3, <2>1, SMT
  <1>4. CASE j = 4
    <2>1. 10^4 = 10000
      BY SMT
    <2> QED
      BY <1>4, <2>1, SMT
  <1>5. CASE j = 5
    <2>1. 10^5 = 100000
      BY SMT
    <2> QED
      BY <1>5, <2>1, SMT
  <1>6. CASE j = 6
    <2>1. 10^6 = 1000000
      BY SMT
    <2> QED
      BY <1>6, <2>1, SMT
  <1>7. CASE j = 7
    <2>1. 10^7 = 10000000
      BY SMT
    <2> QED
      BY <1>7, <2>1, SMT
  <1>8. CASE j = 8
    <2>1. 10^8 = 100000000
      BY SMT
    <2> QED
      BY <1>8, <2>1, SMT
  <1>9. CASE j = 9
    <2>1. 10^9 = 1000000000
      BY SMT
    <2> QED
      BY <1>9, <2>1, SMT
  <1> QED
    BY <1>0, <1>1, <1>2, <1>3, <1>4, <1>5, <1>6, <1>7, <1>8, <1>9, SMT

\* The same for powers of 256.
LEMMA ByteTo ==
    ASSUME NEW j \in 0..3 PROVE 256^j \in Nat /\ 256^j > 0
  <1>0. CASE j = 0
    <2>1. 256^0 = 1
      BY SMT
    <2> QED
      BY <1>0, <2>1, SMT
  <1>1. CASE j = 1
    <2>1. 256^1 = 256
      BY SMT
    <2> QED
      BY <1>1, <2>1, SMT
  <1>2. CASE j = 2
    <2>1. 256^2 = 65536
      BY SMT
    <2> QED
      BY <1>2, <2>1, SMT
  <1>3. CASE j = 3
    <2>1. 256^3 = 16777216
      BY SMT
    <2> QED
      BY <1>3, <2>1, SMT
  <1> QED
    BY <1>0, <1>1, <1>2, <1>3, SMT

\* What is taken for the digits of a number are bytes.
LEMMA DigitsAreBytes ==
    ASSUME NEW n \in Nat, NEW k \in 2..10
    PROVE  Digits(n, k) \in Seq(Byte) /\ Len(Digits(n, k)) = k
  <1>1. Digits(n, k) = [i \in 1..k |-> Digits(n, k)[i]]
    BY DEF Digits
  <1>2. ASSUME NEW i \in 1..k PROVE Digits(n, k)[i] \in Byte
    <2>1. Digits(n, k)[i] = (48 + IF i = 1 THEN n \div 10^(k - 1)
                                  ELSE (n \div 10^(k - i)) % 10) % 256
      BY DEF Digits
    <2> DEFINE x == 48 + IF i = 1 THEN n \div 10^(k - 1) ELSE (n \div 10^(k - i)) % 10
    <2>2. x \in Int
      <3>1. k - 1 \in 0..9 /\ k - i \in 0..9
        OBVIOUS
      <3> DEFINE p == 10^(k - 1)
                 q == 10^(k - i)
      <3>2. p \in Nat /\ p > 0 /\ q \in Nat /\ q > 0
        BY <3>1, TenTo
      <3> HIDE DEF p, q
      <3>3. 48 + (IF i = 1 THEN n \div p ELSE (n \div q) % 10) \in Int
        BY <3>2
      <3> QED
        BY <3>3 DEF p, q
    <2> HIDE DEF x
    <2>3. x % 256 \in 0..255
      BY <2>2
    <2> QED
      BY <2>1, <2>3 DEF x, Byte
  <1> QED
    BY <1>1, <1>2

\* So is what is taken for the bytes of a number.
LEMMA LittleEndianAreBytes ==
    ASSUME NEW n \in Nat, NEW k \in 2..4
    PROVE  LittleEndian(n, k) \in Seq(Byte) /\ Len(LittleEndian(n, k)) = k
  <1>1. LittleEndian(n, k) = [i \in 1..k |-> LittleEndian(n, k)[i]]
    BY DEF LittleEndian
  <1>2. ASSUME NEW i \in 1..k PROVE LittleEndian(n, k)[i] \in Byte
    <2> DEFINE p == 256^(i - 1)
    <2>1. LittleEndian(n, k)[i] = (n \div p) % 256
      BY DEF LittleEndian
    <2>2. p \in Nat /\ p > 0
      BY ByteTo, i - 1 \in 0..3
    <2> HIDE DEF p
    <2>3. (n \div p) % 256 \in 0..255
      BY <2>2
    <2> QED
      BY <2>1, <2>3 DEF Byte
  <1> QED
    BY <1>1, <1>2

\* The protocols count in the same way.
LEMMA UnipumpNumbers ==
    /\ \A n, k : Unipump!Digits(n, k) = Digits(n, k)
    /\ \A n, k : Unipump!LittleEndian(n, k) = LittleEndian(n, k)
    /\ \A s : Unipump!FromDigits(s) = FromDigits(s)
    /\ \A s : Unipump!FromLittleEndian(s) = FromLittleEndian(s)
    /\ \A s : Unipump!AreDigits(s) = AreDigits(s)
    /\ \A p, i, k : Unipump!Slice(p, i, k) = Slice(p, i, k)
    /\ \A p, i : Unipump!At(p, i) = At(p, i)
    /\ \A b, k : Unipump!Repeat(b, k) = Repeat(b, k)
  <1>1. \A n, k : Unipump!Digits(n, k) = Digits(n, k)
    BY Zenon DEF Unipump!Digits, Digits
  <1>2. \A n, k : Unipump!LittleEndian(n, k) = LittleEndian(n, k)
    BY Zenon DEF Unipump!LittleEndian, LittleEndian
  <1>3. \A s : Unipump!FromDigits(s) = FromDigits(s)
    BY DEF Unipump!FromDigits, FromDigits
  <1>4. \A s : Unipump!FromLittleEndian(s) = FromLittleEndian(s)
    BY DEF Unipump!FromLittleEndian, FromLittleEndian
  <1>5. \A s : Unipump!AreDigits(s) = AreDigits(s)
    BY DEF Unipump!AreDigits, AreDigits
  <1>6. \A p, i, k : Unipump!Slice(p, i, k) = Slice(p, i, k)
    BY DEF Unipump!Slice, Slice
  <1>7. \A p, i : Unipump!At(p, i) = At(p, i)
    BY DEF Unipump!At, At
  <1>8. \A b, k : Unipump!Repeat(b, k) = Repeat(b, k)
    BY DEF Unipump!Repeat, Repeat
  <1> QED
    BY <1>1, <1>2, <1>3, <1>4, <1>5, <1>6, <1>7, <1>8

-----------------------------------------------------------------------------
(***************************************************************************)
(* Packets are put together from parts.                                    *)
(***************************************************************************)

IsSequence(s) == \E S : s \in Seq(S)

\* The length of a sequence, or of what stands for one.
Size(s) == Len(s)

\* The part s stands in the packet behind its first k bytes.
Has(packet, k, s) ==
    /\ k + Size(s) <= Size(packet)
    /\ \A i \in 1..Size(s) : packet[k + i] = s[i]

\* The size of a sequence is a number.
LEMMA SequencesHaveLengths ==
    ASSUME NEW s, IsSequence(s) PROVE Size(s) \in Nat
  BY DEF IsSequence, Size

\* A tuple is a sequence of as many elements.
LEMMA Tuples ==
    /\ \A a : IsSequence(<<a>>) /\ Size(<<a>>) = 1
    /\ \A a, b : IsSequence(<<a, b>>) /\ Size(<<a, b>>) = 2
    /\ \A a, b, c : IsSequence(<<a, b, c>>) /\ Size(<<a, b, c>>) = 3
    /\ \A a, b, c, d : IsSequence(<<a, b, c, d>>) /\ Size(<<a, b, c, d>>) = 4
    /\ \A a, b, c, d, e : IsSequence(<<a, b, c, d, e>>) /\ Size(<<a, b, c, d, e>>) = 5
  <1>1. ASSUME NEW a PROVE IsSequence(<<a>>) /\ Size(<<a>>) = 1
    <2>1. <<a>> \in Seq({a})
      OBVIOUS
    <2> QED
      BY <2>1 DEF IsSequence, Size
  <1>2. ASSUME NEW a, NEW b PROVE IsSequence(<<a, b>>) /\ Size(<<a, b>>) = 2
    <2>1. <<a, b>> \in Seq({a, b})
      OBVIOUS
    <2> QED
      BY <2>1 DEF IsSequence, Size
  <1>3. ASSUME NEW a, NEW b, NEW c PROVE IsSequence(<<a, b, c>>) /\ Size(<<a, b, c>>) = 3
    <2>1. <<a, b, c>> \in Seq({a, b, c})
      OBVIOUS
    <2> QED
      BY <2>1 DEF IsSequence, Size
  <1>4. ASSUME NEW a, NEW b, NEW c, NEW d
        PROVE  IsSequence(<<a, b, c, d>>) /\ Size(<<a, b, c, d>>) = 4
    <2>1. <<a, b, c, d>> \in Seq({a, b, c, d})
      OBVIOUS
    <2> QED
      BY <2>1 DEF IsSequence, Size
  <1>5. ASSUME NEW a, NEW b, NEW c, NEW d, NEW e
        PROVE  IsSequence(<<a, b, c, d, e>>) /\ Size(<<a, b, c, d, e>>) = 5
    <2>1. <<a, b, c, d, e>> \in Seq({a, b, c, d, e})
      OBVIOUS
    <2> QED
      BY <2>1 DEF IsSequence, Size
  <1> QED
    BY <1>1, <1>2, <1>3, <1>4, <1>5

\* The bytes of a part are those of the packet.
LEMMA PartAt ==
    ASSUME NEW packet, NEW k, NEW s, k \in Nat, IsSequence(s), Has(packet, k, s)
    PROVE  /\ Slice(packet, k, Size(s)) = s
           /\ \A j \in Nat : j < Size(s) => At(packet, k + j) = s[j + 1]
  <1>0. PICK S : s \in Seq(S)
    BY DEF IsSequence
  <1>1. \A i \in 1..Size(s) : packet[k + i] = s[i]
    BY DEF Has, Size
  <1>2. Slice(packet, k, Size(s)) = s
    <2> DEFINE t == Slice(packet, k, Size(s))
    <2>1. t = [i \in 1..Size(s) |-> packet[k + i]]
      BY <1>0 DEF Slice, Size
    <2>2. t \in Seq(S) /\ Size(t) = Size(s)
      BY <1>0, <1>1, <2>1 DEF Size
    <2>3. \A i \in 1..Size(s) : t[i] = s[i]
      BY <1>1, <2>1
    <2> HIDE DEF t
    <2>4. t = s
      BY <1>0, <2>2, <2>3 DEF Size
    <2> QED
      BY <2>4 DEF t
  <1>3. ASSUME NEW j \in Nat, j < Size(s) PROVE At(packet, k + j) = s[j + 1]
    <2>1. j + 1 \in 1..Size(s) /\ k + (j + 1) = (k + j) + 1
      BY <1>0, <1>3 DEF Size
    <2> QED
      BY <1>1, <2>1 DEF At
  <1> QED
    BY <1>2, <1>3

\* The same where the size of the part is given as a number.
LEMMA PartSliced ==
    ASSUME NEW packet, NEW k, NEW s, NEW n, k \in Nat, IsSequence(s), Has(packet, k, s),
           n = Size(s)
    PROVE  Slice(packet, k, n) = s
  BY PartAt

\* The bytes of a part that is given as a tuple.
LEMMA OneAt ==
    ASSUME NEW packet, NEW k, NEW x, k \in Nat,
           Has(packet, k, <<x>>)
    PROVE  At(packet, k) = x
  <1>1. Size(<<x>>) = 1
    BY Tuples
  <1>2. \A i \in 1..1 : packet[k + i] = <<x>>[i]
    BY <1>1 DEF Has
  <1> QED
    BY <1>2 DEF At

\* The same for two bytes,
LEMMA TwoAt ==
    ASSUME NEW packet, NEW k, NEW x, NEW y, k \in Nat,
           Has(packet, k, <<x, y>>)
    PROVE  At(packet, k) = x /\ At(packet, k + 1) = y
  <1>1. Size(<<x, y>>) = 2
    BY Tuples
  <1>2. \A i \in 1..2 : packet[k + i] = <<x, y>>[i]
    BY <1>1 DEF Has
  <1> QED
    BY <1>2 DEF At

\* for three,
LEMMA ThreeAt ==
    ASSUME NEW packet, NEW k, NEW x, NEW y, NEW z, k \in Nat,
           Has(packet, k, <<x, y, z>>)
    PROVE  At(packet, k) = x /\ At(packet, k + 1) = y /\ At(packet, k + 2) = z
  <1>1. Size(<<x, y, z>>) = 3
    BY Tuples
  <1>2. \A i \in 1..3 : packet[k + i] = <<x, y, z>>[i]
    BY <1>1 DEF Has
  <1> QED
    BY <1>2 DEF At

\* for four,
LEMMA FourAt ==
    ASSUME NEW packet, NEW k, NEW x, NEW y, NEW z, NEW w, k \in Nat,
           Has(packet, k, <<x, y, z, w>>)
    PROVE  /\ At(packet, k) = x /\ At(packet, k + 1) = y
           /\ At(packet, k + 2) = z /\ At(packet, k + 3) = w
  <1>1. Size(<<x, y, z, w>>) = 4
    BY Tuples
  <1>2. \A i \in 1..4 : packet[k + i] = <<x, y, z, w>>[i]
    BY <1>1 DEF Has
  <1> QED
    BY <1>2 DEF At

\* and for five.
LEMMA FiveAt ==
    ASSUME NEW packet, NEW k, NEW x, NEW y, NEW z, NEW w, NEW u, k \in Nat,
           Has(packet, k, <<x, y, z, w, u>>)
    PROVE  /\ At(packet, k) = x /\ At(packet, k + 1) = y /\ At(packet, k + 2) = z
           /\ At(packet, k + 3) = w /\ At(packet, k + 4) = u
  <1>1. Size(<<x, y, z, w, u>>) = 5
    BY Tuples
  <1>2. \A i \in 1..5 : packet[k + i] = <<x, y, z, w, u>>[i]
    BY <1>1 DEF Has
  <1> QED
    BY <1>2 DEF At

\* A part of a part is a part.
LEMMA PartOfPart ==
    ASSUME NEW packet, NEW k, NEW j, NEW s, NEW t, k \in Nat, j \in Nat,
           Size(packet) \in Nat, Size(s) \in Nat, Size(t) \in Nat, Has(packet, k, s),
           Has(s, j, t)
    PROVE  Has(packet, k + j, t)
  <1>1. (k + j) + Size(t) <= Size(packet)
    BY DEF Has
  <1>2. ASSUME NEW i \in 1..Size(t) PROVE packet[(k + j) + i] = t[i]
    <2>1. j + i \in 1..Size(s) /\ k + (j + i) = (k + j) + i
      BY DEF Has
    <2> QED
      BY <2>1 DEF Has
  <1> QED
    BY <1>1, <1>2 DEF Has

\* The packet consists of two, three, ... parts.
Of2(s, a, b) ==
    /\ IsSequence(s) /\ Size(s) = Size(a) + Size(b)
    /\ Has(s, 0, a) /\ Has(s, Size(a), b)

Of3(s, a, b, c) ==
    /\ IsSequence(s) /\ Size(s) = Size(a) + Size(b) + Size(c)
    /\ Has(s, 0, a) /\ Has(s, Size(a), b) /\ Has(s, Size(a) + Size(b), c)

Of4(s, a, b, c, d) ==
    /\ IsSequence(s) /\ Size(s) = Size(a) + Size(b) + Size(c) + Size(d)
    /\ Has(s, 0, a) /\ Has(s, Size(a), b) /\ Has(s, Size(a) + Size(b), c)
    /\ Has(s, Size(a) + Size(b) + Size(c), d)

\* What is joined from two parts consists of them,
LEMMA TwoParts ==
    ASSUME NEW a, NEW b, NEW s, IsSequence(a), IsSequence(b), s = a \o b
    PROVE  Of2(s, a, b)
  <1>1. PICK A : a \in Seq(A)
    BY DEF IsSequence
  <1>2. PICK B : b \in Seq(B)
    BY DEF IsSequence
  <1>3. a \in Seq(A \cup B) /\ b \in Seq(A \cup B)
    BY <1>1, <1>2
  <1>4. /\ s \in Seq(A \cup B) /\ Size(s) = Size(a) + Size(b)
        /\ Has(s, 0, a) /\ Has(s, Size(a), b)
    <2> DEFINE S == A \cup B
    <2>1. a \in Seq(S) /\ b \in Seq(S)
      BY <1>3
    <2> HIDE DEF S
    <2>2. /\ s \in Seq(S) /\ Size(s) = Size(a) + Size(b)
          /\ Has(s, 0, a) /\ Has(s, Size(a), b)
      BY <2>1 DEF Has, Size
    <2> QED
      BY <2>2 DEF S
  <1> QED
    BY <1>4 DEF IsSequence, Of2

\* and so for three
LEMMA ThreeParts ==
    ASSUME NEW a, NEW b, NEW c, NEW s, IsSequence(a), IsSequence(b), IsSequence(c),
           s = a \o b \o c
    PROVE  Of3(s, a, b, c)
  <1> DEFINE f == a \o b
  <1>1. Of2(f, a, b)
    BY TwoParts
  <1>2. s = f \o c
    OBVIOUS
  <1> HIDE DEF f
  <1>3. Of2(s, f, c)
    BY <1>1, <1>2, TwoParts DEF Of2
  <1>4. /\ Size(a) \in Nat /\ Size(b) \in Nat /\ Size(c) \in Nat
        /\ Size(s) \in Nat /\ Size(f) \in Nat
    BY <1>1, <1>3, SequencesHaveLengths DEF Of2
  <1>5. Has(s, 0, f) /\ Has(f, 0, a) /\ Has(f, Size(a), b)
    BY <1>1, <1>3 DEF Of2
  <1>6. Has(s, 0 + 0, a) /\ Has(s, 0 + Size(a), b)
    BY <1>4, <1>5, PartOfPart, 0 \in Nat
  <1>7. 0 + 0 = 0 /\ 0 + Size(a) = Size(a)
    BY <1>4
  <1> QED
    BY <1>1, <1>3, <1>6, <1>7 DEF Of2, Of3

\* and four.
LEMMA FourParts ==
    ASSUME NEW a, NEW b, NEW c, NEW d, NEW s, IsSequence(a), IsSequence(b), IsSequence(c),
           IsSequence(d), s = a \o b \o c \o d
    PROVE  Of4(s, a, b, c, d)
  <1> DEFINE f == a \o b \o c
  <1>1. Of3(f, a, b, c)
    BY ThreeParts
  <1>2. s = f \o d
    OBVIOUS
  <1> HIDE DEF f
  <1>3. Of2(s, f, d)
    BY <1>1, <1>2, TwoParts DEF Of3
  <1>4. /\ Size(a) \in Nat /\ Size(b) \in Nat /\ Size(c) \in Nat
        /\ Size(s) \in Nat /\ Size(f) \in Nat
    BY <1>1, <1>3, SequencesHaveLengths DEF Of2, Of3
  <1>5. Has(s, 0, f) /\ Has(f, 0, a) /\ Has(f, Size(a), b) /\ Has(f, Size(a) + Size(b), c)
    BY <1>1, <1>3 DEF Of2, Of3
  <1>6. Size(a) + Size(b) \in Nat
    BY <1>4
  <1>7. Has(s, 0 + 0, a) /\ Has(s, 0 + Size(a), b) /\ Has(s, 0 + (Size(a) + Size(b)), c)
    BY <1>4, <1>5, <1>6, PartOfPart, 0 \in Nat
  <1>8. 0 + 0 = 0 /\ 0 + Size(a) = Size(a) /\ 0 + (Size(a) + Size(b)) = Size(a) + Size(b)
    BY <1>4
  <1> QED
    BY <1>1, <1>3, <1>7, <1>8 DEF Of2, Of3, Of4

\* Numbers of two, four, six and ten digits are read as they are written.
LEMMA DigitsReadBack ==
    /\ \A n \in Nat : n < 2080 => FromDigits(Digits(n, 2)) = n
    /\ \A n \in Nat : n < 208000 => FromDigits(Digits(n, 4)) = n
    /\ \A n \in Nat : n < 20800000 => FromDigits(Digits(n, 6)) = n
    /\ \A n \in Nat : n < 2147483648 => FromDigits(Digits(n, 10)) = n
  <1>1. ASSUME NEW n \in Nat, n < 2080 PROVE FromDigits(Digits(n, 2)) = n
    BY <1>1, TwoDigits, DigitsAreBytes, 2 \in 2..10
  <1>2. ASSUME NEW n \in Nat, n < 208000 PROVE FromDigits(Digits(n, 4)) = n
    BY <1>2, FourDigits, DigitsAreBytes, 4 \in 2..10
  <1>3. ASSUME NEW n \in Nat, n < 20800000 PROVE FromDigits(Digits(n, 6)) = n
    BY <1>3, SixDigits, DigitsAreBytes, 6 \in 2..10
  <1>4. ASSUME NEW n \in Nat, n < 2147483648 PROVE FromDigits(Digits(n, 10)) = n
    BY <1>4, TenDigits, DigitsAreBytes, 10 \in 2..10
  <1> QED
    BY <1>1, <1>2, <1>3, <1>4, SMT

\* So are numbers of two, three and four bytes.
LEMMA BytesReadBack ==
    /\ \A n \in Nat : n < 65536 => FromLittleEndian(LittleEndian(n, 2)) = n
    /\ \A n \in Nat : n < 16777216 => FromLittleEndian(LittleEndian(n, 3)) = n
    /\ \A n \in Nat : n < 2147483648 => FromLittleEndian(LittleEndian(n, 4)) = n
  <1>1. ASSUME NEW n \in Nat, n < 65536 PROVE FromLittleEndian(LittleEndian(n, 2)) = n
    BY <1>1, TwoBytes, LittleEndianAreBytes, 2 \in 2..4
  <1>2. ASSUME NEW n \in Nat, n < 16777216 PROVE FromLittleEndian(LittleEndian(n, 3)) = n
    BY <1>2, ThreeBytes, LittleEndianAreBytes, 3 \in 2..4
  <1>3. ASSUME NEW n \in Nat, n < 2147483648 PROVE FromLittleEndian(LittleEndian(n, 4)) = n
    BY <1>3, FourBytes, LittleEndianAreBytes, 4 \in 2..4
  <1> QED
    BY <1>1, <1>2, <1>3, SMT

\* The bytes of a number are a sequence,
LEMMA LittleEndianIsSequence ==
    ASSUME NEW n, NEW k, k \in 2..4
    PROVE  IsSequence(LittleEndian(n, k)) /\ Size(LittleEndian(n, k)) = k
  <1> DEFINE s == LittleEndian(n, k)
  <1>1. s = [i \in 1..k |-> s[i]]
    BY DEF LittleEndian
  <1>2. \A i \in 1..k : s[i] \in {s[j] : j \in 1..k}
    OBVIOUS
  <1> DEFINE S == {s[j] : j \in 1..k}
  <1>3. \A i \in 1..k : s[i] \in S
    BY <1>2
  <1> HIDE DEF s, S
  <1>4. s \in Seq(S) /\ Size(s) = k
    BY <1>1, <1>3 DEF Size
  <1> QED
    BY <1>4 DEF s, IsSequence, Size

\* as is a byte repeated
LEMMA RepeatIsSequence ==
    ASSUME NEW b, NEW k, k \in Nat
    PROVE IsSequence(Repeat(b, k)) /\ Size(Repeat(b, k)) = k
  <1>1. Repeat(b, k) \in Seq({b}) /\ Size(Repeat(b, k)) = k
    BY DEF Repeat, Size
  <1> QED
    BY <1>1 DEF IsSequence

\* and the digits of a number.
LEMMA DigitsIsSequence ==
    ASSUME NEW n, NEW k, k \in 2..10
    PROVE  IsSequence(Digits(n, k)) /\ Size(Digits(n, k)) = k
  <1> DEFINE s == Digits(n, k)
  <1>1. s = [i \in 1..k |-> s[i]]
    BY DEF Digits
  <1> DEFINE S == {s[j] : j \in 1..k}
  <1>2. \A i \in 1..k : s[i] \in S
    OBVIOUS
  <1> HIDE DEF s, S
  <1>3. s \in Seq(S) /\ Size(s) = k
    BY <1>1, <1>2 DEF Size
  <1> QED
    BY <1>3 DEF s, IsSequence, Size

-----------------------------------------------------------------------------
(***************************************************************************)
(* Unipump: what the pump hears of a request.                              *)
(***************************************************************************)

\* The frame around the content: two bytes, and behind it the checksum and two bytes more.
LEMMA UnipumpFramed ==
    ASSUME NEW c, NEW packet, IsSequence(c), packet = Unipump!Frame(c)
    PROVE  /\ Has(packet, 2, c) /\ Size(packet) = Size(c) + 6 /\ IsSequence(packet)
           /\ Unipump!CheckCheckSum(packet)
  <1> DEFINE crc == LittleEndian(Crc16(c), 2)
             u   == <<16, 2>>
             w   == <<16, 3>>
  <1>0. packet = u \o c \o crc \o w
    BY UnipumpNumbers DEF Unipump!Frame, Unipump!DLE, Unipump!STX, Unipump!ETX
  <1>1. IsSequence(crc) /\ Size(crc) = 2
    BY LittleEndianIsSequence, 2 \in 2..4
  <1>2. IsSequence(u) /\ IsSequence(w) /\ Size(u) = 2 /\ Size(w) = 2
    BY Tuples
  <1> HIDE DEF u, w, crc
  <1>3. Of4(packet, u, c, crc, w)
    BY <1>0, <1>1, <1>2, FourParts
  <1>4. Size(c) \in Nat
    BY SequencesHaveLengths
  <1>5. /\ Size(packet) = Size(c) + 6 /\ Has(packet, 2, c) /\ Has(packet, 2 + Size(c), crc)
        /\ IsSequence(packet)
    BY <1>1, <1>2, <1>3, <1>4 DEF Of4
  <1>6. Slice(packet, 2, Size(c)) = c /\ Slice(packet, 2 + Size(c), Size(crc)) = crc
    BY <1>1, <1>4, <1>5, PartAt, 2 \in Nat, 2 + Size(c) \in Nat
  <1>7. Size(packet) - 6 = Size(c) /\ Size(packet) - 4 = 2 + Size(c)
    BY <1>4, <1>5
  <1>8. Unipump!CheckCheckSum(packet)
    BY <1>1, <1>6, <1>7, UnipumpNumbers DEF Unipump!CheckCheckSum, crc, Size
  <1> QED
    BY <1>5, <1>8

\* The parts of the content are parts of the packet.
LEMMA UnipumpTwo ==
    ASSUME NEW a, NEW b, NEW packet, IsSequence(a), IsSequence(b),
           packet = Unipump!Frame(a \o b)
    PROVE  /\ Has(packet, 2, a) /\ Has(packet, 2 + Size(a), b)
           /\ Size(packet) = Size(a) + Size(b) + 6 /\ Unipump!CheckCheckSum(packet)
  <1> DEFINE c == a \o b
  <1>1. Of2(c, a, b)
    BY TwoParts
  <1>2. packet = Unipump!Frame(c)
    OBVIOUS
  <1> HIDE DEF c
  <1>3. Has(packet, 2, c) /\ Size(packet) = Size(c) + 6 /\ Unipump!CheckCheckSum(packet)
    BY <1>1, <1>2, UnipumpFramed DEF Of2
  <1>4. /\ Size(a) \in Nat /\ Size(b) \in Nat /\ Size(c) \in Nat /\ Size(packet) \in Nat
        /\ Has(c, 0, a) /\ Has(c, Size(a), b) /\ Size(c) = Size(a) + Size(b)
    BY <1>1, <1>3, SequencesHaveLengths DEF Of2
  <1>5. Has(packet, 2 + 0, a) /\ Has(packet, 2 + Size(a), b)
    BY <1>3, <1>4, PartOfPart, 0 \in Nat, 2 \in Nat
  <1> QED
    BY <1>3, <1>4, <1>5, 2 + 0 = 2

\* The same for a content of three parts.
LEMMA UnipumpThree ==
    ASSUME NEW a, NEW b, NEW d, NEW packet, IsSequence(a), IsSequence(b), IsSequence(d),
           packet = Unipump!Frame(a \o b \o d)
    PROVE  /\ Has(packet, 2, a) /\ Has(packet, 2 + Size(a), b)
           /\ Has(packet, 2 + Size(a) + Size(b), d)
           /\ Size(packet) = Size(a) + Size(b) + Size(d) + 6 /\ Unipump!CheckCheckSum(packet)
  <1> DEFINE c == a \o b \o d
  <1>1. Of3(c, a, b, d)
    BY ThreeParts
  <1>2. packet = Unipump!Frame(c)
    OBVIOUS
  <1> HIDE DEF c
  <1>3. Has(packet, 2, c) /\ Size(packet) = Size(c) + 6 /\ Unipump!CheckCheckSum(packet)
    BY <1>1, <1>2, UnipumpFramed DEF Of3
  <1>4. /\ Size(a) \in Nat /\ Size(b) \in Nat /\ Size(d) \in Nat /\ Size(c) \in Nat
        /\ Size(packet) \in Nat /\ Size(a) + Size(b) \in Nat
        /\ Has(c, 0, a) /\ Has(c, Size(a), b) /\ Has(c, Size(a) + Size(b), d)
        /\ Size(c) = Size(a) + Size(b) + Size(d)
    BY <1>1, <1>3, SequencesHaveLengths DEF Of3
  <1>5. /\ Has(packet, 2 + 0, a) /\ Has(packet, 2 + Size(a), b)
        /\ Has(packet, 2 + (Size(a) + Size(b)), d)
    BY <1>3, <1>4, PartOfPart, 0 \in Nat, 2 \in Nat
  <1>6. 2 + (Size(a) + Size(b)) = 2 + Size(a) + Size(b)
    BY <1>4
  <1> QED
    BY <1>3, <1>4, <1>5, <1>6, 2 + 0 = 2

-----------------------------------------------------------------------------
(***************************************************************************)
(* What does not fit into its digits begins with something else.           *)
(***************************************************************************)

\* Six digits hold the numbers below a million: of a larger one the first is no digit.
LEMMA SixFit ==
    ASSUME NEW n, n \in Nat, n < 20000000
    PROVE  AreDigits(Digits(n, 6)) <=> n < 1000000
  <1> DEFINE d == Digits(n, 6)
  <1>1. DOMAIN d = 1..6
    BY DEF Digits
  <1>2. n \div 100000 \in Nat /\ n \div 100000 <= 200
    BY SMT
  <1>3. d[1] = 48 + n \div 100000
    <2>1. d[1] = (48 + n \div 100000) % 256
      BY SMT DEF Digits
    <2> QED
      BY <1>2, <2>1, SMT
  <1>4. \A i \in 2..6 : d[i] \in 48..57
    <2>1. d[2] = (48 + ((n \div 10000) % 10)) % 256 /\ d[3] = (48 + ((n \div 1000) % 10)) % 256
      BY SMT DEF Digits
    <2>2. d[4] = (48 + ((n \div 100) % 10)) % 256 /\ d[5] = (48 + ((n \div 10) % 10)) % 256
      BY SMT DEF Digits
    <2>3. d[6] = (48 + (n % 10)) % 256
      BY SMT DEF Digits
    <2> HIDE DEF d
    <2>4. /\ d[2] \in 48..57 /\ d[3] \in 48..57 /\ d[4] \in 48..57
          /\ d[5] \in 48..57 /\ d[6] \in 48..57
      BY <2>1, <2>2, <2>3, SMT
    <2> QED
      BY <2>4, SMT
  <1> HIDE DEF d
  <1>5. AreDigits(d) <=> d[1] \in 48..57
    BY <1>1, <1>4, SMT DEF AreDigits
  <1>6. d[1] \in 48..57 <=> n < 1000000
    BY <1>2, <1>3, SMT
  <1> QED
    BY <1>5, <1>6 DEF d

\* Four digits hold the numbers below ten thousand.
LEMMA FourFit ==
    ASSUME NEW n, n \in Nat, n <= 65535
    PROVE  AreDigits(Digits(n, 4)) <=> n < 10000
  <1> DEFINE d == Digits(n, 4)
  <1>1. DOMAIN d = 1..4
    BY DEF Digits
  <1>2. n \div 1000 \in Nat /\ n \div 1000 <= 65
    BY SMT
  <1>3. d[1] = 48 + n \div 1000
    <2>1. d[1] = (48 + n \div 1000) % 256
      BY SMT DEF Digits
    <2> QED
      BY <1>2, <2>1, SMT
  <1>4. \A i \in 2..4 : d[i] \in 48..57
    <2>1. /\ d[2] = (48 + ((n \div 100) % 10)) % 256 /\ d[3] = (48 + ((n \div 10) % 10)) % 256
          /\ d[4] = (48 + (n % 10)) % 256
      BY SMT DEF Digits
    <2> HIDE DEF d
    <2>2. d[2] \in 48..57 /\ d[3] \in 48..57 /\ d[4] \in 48..57
      BY <2>1, SMT
    <2> QED
      BY <2>2, SMT
  <1> HIDE DEF d
  <1>5. AreDigits(d) <=> d[1] \in 48..57
    BY <1>1, <1>4, SMT DEF AreDigits
  <1>6. d[1] \in 48..57 <=> n < 10000
    BY <1>2, <1>3, SMT
  <1> QED
    BY <1>5, <1>6 DEF d

\* The bytes behind the first k of a packet that has one part there and then another.
LEMMA TwoPartsInside ==
    ASSUME NEW packet, NEW k, NEW a, NEW b, k \in Nat, Size(packet) \in Nat, IsSequence(a),
           IsSequence(b), Has(packet, k, a), Has(packet, k + Size(a), b)
    PROVE  Of2(Slice(packet, k, Size(a) + Size(b)), a, b)
  <1> DEFINE n == Size(a)
             m == Size(b)
             s == Slice(packet, k, n + m)
             S == {packet[i] : i \in 1..Size(packet)}
  <1>1. n \in Nat /\ m \in Nat
    BY SequencesHaveLengths
  <1>2. /\ k + n + m <= Size(packet)
        /\ \A i \in 1..n : packet[k + i] = a[i]
        /\ \A i \in 1..m : packet[(k + n) + i] = b[i]
    BY DEF Has
  <1>3. s = [i \in 1..(n + m) |-> packet[k + i]]
    BY <1>1, SMTT(30) DEF Slice
  <1>4. \A i \in 1..(n + m) : packet[k + i] \in S
    BY <1>1, <1>2
  <1> HIDE DEF s, n, m, S
  <1>5. s \in Seq(S) /\ Size(s) = n + m
    BY <1>1, <1>3, <1>4 DEF Size
  <1>6. \A i \in 1..n : s[i] = a[i]
    BY <1>1, <1>2, <1>3
  <1>7. ASSUME NEW i \in 1..m PROVE s[n + i] = b[i]
    <2>1. n + i \in 1..(n + m) /\ k + (n + i) = (k + n) + i
      BY <1>1
    <2> QED
      BY <1>2, <1>3, <2>1
  <1>8. \A i \in 1..n : s[0 + i] = a[i]
    BY <1>1, <1>6
  <1>9. IsSequence(s)
    BY <1>5 DEF IsSequence
  <1>10. Has(s, 0, a) /\ Has(s, n, b)
    BY <1>1, <1>5, <1>7, <1>8 DEF Has, n, m
  <1> QED
    BY <1>5, <1>9, <1>10 DEF Of2, s, n, m

\* What consists of two parts consists of digits if both parts do.
LEMMA DigitsOfTwo ==
    ASSUME NEW a, NEW b, NEW s, IsSequence(a), IsSequence(b), Of2(s, a, b)
    PROVE  AreDigits(s) <=> AreDigits(a) /\ AreDigits(b)
  <1> DEFINE n == Size(a)
             m == Size(b)
  <1>1. n \in Nat /\ m \in Nat
    BY SequencesHaveLengths
  <1>2. DOMAIN a = 1..n /\ DOMAIN b = 1..m
    BY DEF IsSequence, Size
  <1>3. DOMAIN s = 1..(n + m)
    <2>1. PICK S : s \in Seq(S)
      BY DEF IsSequence, Of2
    <2>2. Len(s) = n + m
      BY DEF Of2, Size
    <2> QED
      BY <2>1, <2>2
  <1>4. /\ \A i \in 1..n : s[0 + i] = a[i]
        /\ \A i \in 1..m : s[n + i] = b[i]
    BY DEF Of2, Has
  <1> HIDE DEF n, m
  <1>5. ASSUME AreDigits(a), AreDigits(b), NEW i \in 1..(n + m) PROVE s[i] \in 48..57
    <2>1. CASE i \in 1..n
      <3>1. 0 + i = i
        BY <2>1, <1>1
      <3> QED
        BY <1>2, <1>4, <1>5, <2>1, <3>1 DEF AreDigits
    <2>2. CASE i \notin 1..n
      <3>1. i - n \in 1..m /\ n + (i - n) = i
        BY <1>1, <2>2
      <3> QED
        BY <1>2, <1>4, <1>5, <3>1 DEF AreDigits
    <2> QED
      BY <2>1, <2>2
  <1>6. ASSUME AreDigits(s) PROVE AreDigits(a) /\ AreDigits(b)
    <2>1. ASSUME NEW i \in 1..n PROVE a[i] \in 48..57
      <3>1. i \in 1..(n + m) /\ 0 + i = i
        BY <1>1
      <3> QED
        BY <1>3, <1>4, <1>6, <3>1 DEF AreDigits
    <2>2. ASSUME NEW i \in 1..m PROVE b[i] \in 48..57
      <3>1. n + i \in 1..(n + m)
        BY <1>1
      <3> QED
        BY <1>3, <1>4, <1>6, <3>1 DEF AreDigits
    <2> QED
      BY <1>2, <2>1, <2>2 DEF AreDigits
  <1> QED
    BY <1>3, <1>5, <1>6 DEF AreDigits

-----------------------------------------------------------------------------
(***************************************************************************)
(* Unipump: the requests.                                                  *)
(***************************************************************************)

\* A pump hears an order, a price and the end of a report by the third byte.
LEMMA UnipumpHearsRun ==
    ASSUME NEW packet, NEW a, Unipump!CheckCheckSum(packet), Unipump!AddrOfPacket(packet) = a,
           Unipump!At(packet, 3) = 65
    PROVE  Unipump!Heard(packet, a) =
              IF ~Unipump!AreDigits(Unipump!Slice(packet, 6, 12)) THEN {}
              ELSE {[type |-> "WRITE_VOLUME", nozzle |-> Unipump!At(packet, 4) - 48,
                     volume |-> 10 * Unipump!FromDigits(Unipump!Slice(packet, 6, 6)),
                     price |-> Unipump!FromDigits(Unipump!Slice(packet, 12, 6)) \div 100]}
  <1> DEFINE r == [type |-> "WRITE_VOLUME", nozzle |-> Unipump!At(packet, 4) - 48,
                   volume |-> 10 * Unipump!FromDigits(Unipump!Slice(packet, 6, 6)),
                   price |-> Unipump!FromDigits(Unipump!Slice(packet, 12, 6)) \div 100]
  <1>1. CASE ~Unipump!AreDigits(Unipump!Slice(packet, 6, 12))
    BY <1>1, SMT DEF Unipump!Heard
  <1>2. CASE Unipump!AreDigits(Unipump!Slice(packet, 6, 12))
    <2>1. Unipump!Heard(packet, a) = {r}
      BY <1>2, SMT DEF Unipump!Heard
    <2> QED
      BY <2>1, <1>2, Zenon
  <1> QED
    BY <1>1, <1>2

\* The same for a price.
LEMMA UnipumpHearsPrice ==
    ASSUME NEW packet, NEW a, Unipump!CheckCheckSum(packet), Unipump!AddrOfPacket(packet) = a,
           Unipump!At(packet, 3) = 112
    PROVE  Unipump!Heard(packet, a) =
              IF ~Unipump!AreDigits(Unipump!Slice(packet, 4, 4)) THEN {}
              ELSE {[type |-> "WRITE_MONEY",
                     price |-> Unipump!FromDigits(Unipump!Slice(packet, 4, 4))]}
  BY SMT DEF Unipump!Heard

\* A pump that hears an order for a volume and a price hears this order, in whole units of
\* 10 ml, if the protocol has room for it, and otherwise nothing.
LEMMA UnipumpRunHeard ==
    ASSUME NEW a, NEW nozzle, NEW volume, NEW price, NEW cmd, a \in Int, nozzle \in Int,
           volume \in Nat, price \in Nat, volume <= LargestVolume, price <= LargestPrice,
           cmd.nozzle = nozzle, cmd.volume = volume, cmd.price = price
    PROVE  Unipump!Heard(Unipump!RunCommand(cmd, a), a) =
               IF volume < 10000000 /\ price < 10000
               THEN {[type |-> "WRITE_VOLUME", nozzle |-> nozzle,
                      volume |-> 10 * (volume \div 10), price |-> price]}
               ELSE {}
  <1> DEFINE v == volume \div 10
             w == price * 100
             d == Digits(v, 6)
             e == Digits(w, 6)
             start == <<a + 48, 65, nozzle + 48, 76>>
             c == start \o d \o e
             packet == Unipump!Frame(c)
             fits == volume < 10000000 /\ price < 10000
  <1>1. Unipump!RunCommand(cmd, a) = packet
    <2>1. d = Unipump!Digits(v, 6) /\ e = Unipump!Digits(w, 6)
      BY UnipumpNumbers
    <2>2. Unipump!RunCommand(cmd, a)
             = Unipump!Frame(start \o Unipump!Digits(v, 6) \o Unipump!Digits(w, 6))
      BY DEF Unipump!RunCommand
    <2> HIDE DEF d, e, start
    <2> QED
      BY <2>1, <2>2
  <1>2. /\ v \in Nat /\ v <= 16777215 /\ w \in Nat /\ w <= 6553500
        /\ w \div 100 = price
        /\ (v < 1000000 <=> volume < 10000000) /\ (w < 1000000 <=> price < 10000)
    BY SMT DEF LargestVolume, LargestPrice
  <1> HIDE DEF v, w
  <1>3. IsSequence(d) /\ Size(d) = 6 /\ IsSequence(e) /\ Size(e) = 6
    BY DigitsIsSequence, 6 \in 2..10
  <1>4. IsSequence(start) /\ Size(start) = 4
    BY Tuples
  <1>6. packet = Unipump!Frame(start \o d \o e)
    OBVIOUS
  <1> HIDE DEF d, e, start, packet, fits
  <1>7. /\ Has(packet, 2, start) /\ Has(packet, 2 + Size(start), d)
        /\ Has(packet, 2 + Size(start) + Size(d), e)
        /\ Size(packet) = Size(start) + Size(d) + Size(e) + 6 /\ Unipump!CheckCheckSum(packet)
    BY <1>3, <1>4, <1>6, UnipumpThree
  <1>10. /\ Has(packet, 2, start) /\ Has(packet, 6, d) /\ Has(packet, 12, e)
         /\ Size(packet) = 22 /\ Unipump!CheckCheckSum(packet)
    BY <1>3, <1>4, <1>7, 2 + 4 = 6, 6 + 6 = 12, 4 + 6 + 6 + 6 = 22
  <1>11. At(packet, 2) = a + 48 /\ At(packet, 3) = 65 /\ At(packet, 4) = nozzle + 48
    <2>1. Has(packet, 2, <<a + 48, 65, nozzle + 48, 76>>)
      BY <1>10 DEF start
    <2> QED
      BY <2>1, FourAt, 2 \in Nat, 2 + 1 = 3, 2 + 2 = 4
  <1>12. Slice(packet, 6, 6) = d /\ Slice(packet, 12, 6) = e
    BY <1>3, <1>10, PartSliced, 6 \in Nat, 12 \in Nat
  <1>13. AreDigits(Slice(packet, 6, 12)) <=> fits
    <2>1. Of2(Slice(packet, 6, Size(d) + Size(e)), d, e)
      <3>1. Has(packet, 6 + Size(d), e)
        BY <1>3, <1>10, 6 + 6 = 12
      <3> QED
        BY <1>3, <1>10, <3>1, TwoPartsInside, 6 \in Nat, 22 \in Nat
    <2>2. Of2(Slice(packet, 6, 12), d, e)
      BY <1>3, <2>1, 6 + 6 = 12
    <2>3. AreDigits(Slice(packet, 6, 12)) <=> AreDigits(d) /\ AreDigits(e)
      BY <1>3, <2>2, DigitsOfTwo
    <2>4. (AreDigits(d) <=> v < 1000000) /\ (AreDigits(e) <=> w < 1000000)
      BY <1>2, SixFit, SMT DEF d, e
    <2> QED
      BY <1>2, <2>3, <2>4 DEF fits
  <1>14. FromDigits(d) = v /\ FromDigits(e) = w
    BY <1>2, DigitsReadBack, SMT DEF d, e
  <1>15. Unipump!Heard(packet, a) =
            IF ~AreDigits(Slice(packet, 6, 12)) THEN {}
            ELSE {[type |-> "WRITE_VOLUME", nozzle |-> At(packet, 4) - 48,
                   volume |-> 10 * FromDigits(Slice(packet, 6, 6)),
                   price |-> FromDigits(Slice(packet, 12, 6)) \div 100]}
    <2>1. /\ Unipump!At(packet, 3) = 65 /\ Unipump!At(packet, 4) = At(packet, 4)
          /\ Unipump!AddrOfPacket(packet) = a
      BY <1>11, UnipumpNumbers DEF Unipump!AddrOfPacket
    <2>2. /\ Unipump!AreDigits(Unipump!Slice(packet, 6, 12)) = AreDigits(Slice(packet, 6, 12))
          /\ Unipump!FromDigits(Unipump!Slice(packet, 6, 6)) = FromDigits(Slice(packet, 6, 6))
          /\ Unipump!FromDigits(Unipump!Slice(packet, 12, 6)) = FromDigits(Slice(packet, 12, 6))
      BY UnipumpNumbers
    <2>3. Unipump!Heard(packet, a) =
              IF ~Unipump!AreDigits(Unipump!Slice(packet, 6, 12)) THEN {}
              ELSE {[type |-> "WRITE_VOLUME", nozzle |-> Unipump!At(packet, 4) - 48,
                     volume |-> 10 * Unipump!FromDigits(Unipump!Slice(packet, 6, 6)),
                     price |-> Unipump!FromDigits(Unipump!Slice(packet, 12, 6)) \div 100]}
      BY <1>10, <2>1, UnipumpHearsRun
    <2> QED
      BY <2>1, <2>2, <2>3, Zenon
  <1>16. At(packet, 4) - 48 = nozzle
    BY <1>11
  <1>17. Unipump!Heard(packet, a) =
            IF ~fits THEN {}
            ELSE {[type |-> "WRITE_VOLUME", nozzle |-> nozzle, volume |-> 10 * v, price |-> price]}
    <2>1. FromDigits(Slice(packet, 6, 6)) = v /\ FromDigits(Slice(packet, 12, 6)) \div 100 = price
      BY <1>2, <1>12, <1>14
    <2> QED
      BY <1>13, <1>15, <1>16, <2>1, Zenon
  <1> QED
    BY <1>1, <1>17, SMT DEF v, fits

\* A pump that is told a price hears this price, or nothing if it has too many digits.
LEMMA UnipumpPriceHeard ==
    ASSUME NEW a, NEW price, NEW cmd, a \in Int, price \in Nat, price <= LargestPrice,
           cmd.price = price
    PROVE  Unipump!Heard(Unipump!SetPriceRequest(cmd, a), a) =
               IF price < 10000 THEN {[type |-> "WRITE_MONEY", price |-> price]} ELSE {}
  <1> DEFINE d == Digits(price, 4)
             start == <<a + 48, 112>>
             rest == Repeat(48, 20)
             c == start \o d \o rest
             packet == Unipump!Frame(c)
  <1>1. Unipump!SetPriceRequest(cmd, a) = packet
    <2>1. d = Unipump!Digits(price, 4) /\ rest = Unipump!Repeat(48, 20)
      BY UnipumpNumbers
    <2>2. Unipump!SetPriceRequest(cmd, a)
             = Unipump!Frame(start \o Unipump!Digits(price, 4) \o Unipump!Repeat(48, 20))
      BY DEF Unipump!SetPriceRequest
    <2> HIDE DEF d, rest, start
    <2> QED
      BY <2>1, <2>2
  <1>2. IsSequence(d) /\ Size(d) = 4
    BY DigitsIsSequence, 4 \in 2..10
  <1>3. IsSequence(rest) /\ Size(rest) = 20
    BY RepeatIsSequence, 20 \in Nat
  <1>4. IsSequence(start) /\ Size(start) = 2
    BY Tuples
  <1>6. (AreDigits(d) <=> price < 10000) /\ FromDigits(d) = price
    BY FourFit, DigitsReadBack, SMT DEF LargestPrice
  <1>7. packet = Unipump!Frame(start \o d \o rest)
    OBVIOUS
  <1> HIDE DEF d, start, rest, packet
  <1>8. /\ Has(packet, 2, start) /\ Has(packet, 2 + Size(start), d) /\ Unipump!CheckCheckSum(packet)
    BY <1>2, <1>3, <1>4, <1>7, UnipumpThree
  <1>9. Has(packet, 4, d)
    BY <1>4, <1>8, 2 + 2 = 4
  <1>11. At(packet, 2) = a + 48 /\ At(packet, 3) = 112
    <2>1. Has(packet, 2, <<a + 48, 112>>)
      BY <1>8 DEF start
    <2> QED
      BY <2>1, TwoAt, 2 \in Nat, 2 + 1 = 3
  <1>12. Slice(packet, 4, 4) = d
    BY <1>2, <1>9, PartSliced, 4 \in Nat
  <1>13. Unipump!Heard(packet, a) =
            IF ~AreDigits(Slice(packet, 4, 4)) THEN {}
            ELSE {[type |-> "WRITE_MONEY", price |-> FromDigits(Slice(packet, 4, 4))]}
    <2>1. Unipump!At(packet, 3) = 112 /\ Unipump!AddrOfPacket(packet) = a
      BY <1>11, UnipumpNumbers DEF Unipump!AddrOfPacket
    <2>2. /\ Unipump!AreDigits(Unipump!Slice(packet, 4, 4)) = AreDigits(Slice(packet, 4, 4))
          /\ Unipump!FromDigits(Unipump!Slice(packet, 4, 4)) = FromDigits(Slice(packet, 4, 4))
      BY UnipumpNumbers
    <2>3. Unipump!Heard(packet, a) =
              IF ~Unipump!AreDigits(Unipump!Slice(packet, 4, 4)) THEN {}
              ELSE {[type |-> "WRITE_MONEY",
                     price |-> Unipump!FromDigits(Unipump!Slice(packet, 4, 4))]}
      BY <1>8, <2>1, UnipumpHearsPrice
    <2> QED
      BY <2>2, <2>3, Zenon
  <1> QED
    BY <1>1, <1>6, <1>12, <1>13, SMT

-----------------------------------------------------------------------------
(***************************************************************************)
(* Adast: the requests.                                                    *)
(***************************************************************************)

\* Adast counts in the same way.
LEMMA AdastNumbers ==
    /\ \A n, k : Adast!Digits(n, k) = Digits(n, k)
    /\ \A n, k : Adast!LittleEndian(n, k) = LittleEndian(n, k)
    /\ \A s : Adast!FromDigits(s) = FromDigits(s)
    /\ \A s : Adast!FromLittleEndian(s) = FromLittleEndian(s)
    /\ \A s : Adast!AreDigits(s) = AreDigits(s)
    /\ \A p, i, k : Adast!Slice(p, i, k) = Slice(p, i, k)
    /\ \A p, i : Adast!At(p, i) = At(p, i)
    /\ \A b, k : Adast!Repeat(b, k) = Repeat(b, k)
  <1>1. \A n, k : Adast!Digits(n, k) = Digits(n, k)
    BY Zenon DEF Adast!Digits, Digits
  <1>2. \A n, k : Adast!LittleEndian(n, k) = LittleEndian(n, k)
    BY Zenon DEF Adast!LittleEndian, LittleEndian
  <1>3. \A s : Adast!FromDigits(s) = FromDigits(s)
    BY DEF Adast!FromDigits, FromDigits
  <1>4. \A s : Adast!FromLittleEndian(s) = FromLittleEndian(s)
    BY DEF Adast!FromLittleEndian, FromLittleEndian
  <1>5. \A s : Adast!AreDigits(s) = AreDigits(s)
    BY DEF Adast!AreDigits, AreDigits
  <1>6. \A p, i, k : Adast!Slice(p, i, k) = Slice(p, i, k)
    BY DEF Adast!Slice, Slice
  <1>7. \A p, i : Adast!At(p, i) = At(p, i)
    BY DEF Adast!At, At
  <1>8. \A b, k : Adast!Repeat(b, k) = Repeat(b, k)
    BY DEF Adast!Repeat, Repeat
  <1> QED
    BY <1>1, <1>2, <1>3, <1>4, <1>5, <1>6, <1>7, <1>8

\* The frame: two bytes, the address and the length byte, the data, and three bytes more.
LEMMA AdastFramed ==
    ASSUME NEW addr, NEW length, NEW data, NEW packet, IsSequence(data),
           packet = Adast!Frame(addr, length, data)
    PROVE  /\ Has(packet, 2, <<addr, length>>) /\ Has(packet, 4, data)
           /\ Size(packet) = Size(data) + 7 /\ IsSequence(packet)
           /\ Adast!CheckCheckSum(packet)
  <1> DEFINE head == <<addr, length>>
             c    == head \o data
             crc  == LittleEndian(CrcAdast(c), 2)
             u    == <<22, 22>>
             w    == <<255>>
  <1>0. packet = u \o c \o crc \o w
    BY AdastNumbers DEF Adast!Frame, Adast!SYNC
  <1>1. IsSequence(crc) /\ Size(crc) = 2
    BY LittleEndianIsSequence, 2 \in 2..4
  <1>2. /\ IsSequence(u) /\ IsSequence(w) /\ IsSequence(head)
        /\ Size(u) = 2 /\ Size(w) = 1 /\ Size(head) = 2
    BY Tuples
  <1>3. Of2(c, head, data)
    BY <1>2, TwoParts
  <1> HIDE DEF u, w, crc, c, head
  <1>4. Of4(packet, u, c, crc, w)
    BY <1>0, <1>1, <1>2, <1>3, FourParts DEF Of2
  <1>5. /\ Size(c) \in Nat /\ Size(data) \in Nat /\ Size(c) = 2 + Size(data) /\ IsSequence(c)
        /\ Has(c, 0, head) /\ Has(c, 2, data)
    BY <1>2, <1>3, SequencesHaveLengths DEF Of2
  <1>6. /\ Size(packet) = Size(data) + 7 /\ Has(packet, 2, c) /\ Has(packet, 2 + Size(c), crc)
        /\ IsSequence(packet)
    BY <1>1, <1>2, <1>4, <1>5 DEF Of4
  <1>7. Slice(packet, 2, Size(c)) = c /\ Slice(packet, 2 + Size(c), Size(crc)) = crc
    BY <1>1, <1>5, <1>6, PartAt, 2 \in Nat, 2 + Size(c) \in Nat
  <1>8. Size(packet) - 5 = Size(c) /\ Size(packet) - 3 = 2 + Size(c) /\ Size(packet) >= 6
    BY <1>5, <1>6
  <1>9. Adast!CheckCheckSum(packet)
    BY <1>1, <1>7, <1>8, AdastNumbers DEF Adast!CheckCheckSum, crc, Size
  <1>10. Has(packet, 2 + 0, head) /\ Has(packet, 2 + 2, data)
    <2>1. Size(packet) \in Nat
      BY <1>5, <1>6
    <2> QED
      BY <1>2, <1>5, <1>6, <2>1, PartOfPart, 0 \in Nat, 2 \in Nat
  <1> QED
    BY <1>6, <1>9, <1>10, 2 + 0 = 2, 2 + 2 = 4 DEF head

\* A pump hears an order and a price by the fourth byte, if the length byte is true.
LEMMA AdastHearsRun ==
    ASSUME NEW packet, NEW a, Adast!CheckCheckSum(packet), Adast!AddrOfPacket(packet) = a,
           Adast!At(packet, 4) = 57
    PROVE  Adast!Heard(packet, a) =
              IF \/ Adast!At(packet, 3) # Len(packet) - 7
                 \/ ~Adast!AreDigits(Adast!Slice(packet, 7, 6) \o Adast!Slice(packet, 14, 4))
              THEN {}
              ELSE {[type |-> "WRITE_VOLUME", nozzle |-> Adast!At(packet, 5) - 48,
                     volume |-> 10 * Adast!FromDigits(Adast!Slice(packet, 7, 6)),
                     price |-> Adast!FromDigits(Adast!Slice(packet, 14, 4))]}
  <1> DEFINE r == [type |-> "WRITE_VOLUME", nozzle |-> Adast!At(packet, 5) - 48,
                   volume |-> 10 * Adast!FromDigits(Adast!Slice(packet, 7, 6)),
                   price |-> Adast!FromDigits(Adast!Slice(packet, 14, 4))]
             long == Adast!At(packet, 3) # Len(packet) - 7
             digits == Adast!AreDigits(Adast!Slice(packet, 7, 6) \o Adast!Slice(packet, 14, 4))
  <1>1. CASE long
    BY <1>1, SMT DEF Adast!Heard
  <1>2. CASE ~long /\ ~digits
    BY <1>2, SMT DEF Adast!Heard
  <1>3. CASE ~long /\ digits
    <2>1. Adast!Heard(packet, a) = {r}
      BY <1>3, SMT DEF Adast!Heard
    <2> QED
      BY <2>1, <1>3, Zenon
  <1> QED
    BY <1>1, <1>2, <1>3

\* The same for a price.
LEMMA AdastHearsPrice ==
    ASSUME NEW packet, NEW a, Adast!CheckCheckSum(packet), Adast!AddrOfPacket(packet) = a,
           Adast!At(packet, 4) = 52, Adast!At(packet, 3) = Len(packet) - 7
    PROVE  Adast!Heard(packet, a) =
              IF ~Adast!AreDigits(Adast!Slice(packet, 6, 4)) THEN {}
              ELSE {[type |-> "WRITE_MONEY",
                     price |-> Adast!FromDigits(Adast!Slice(packet, 6, 4))]}
  BY SMT DEF Adast!Heard

\* A function on 1..n is a sequence of n.
LEMMA FunctionIsSequence ==
    ASSUME NEW g, NEW n, n \in Nat, g = [i \in 1..n |-> g[i]]
    PROVE  IsSequence(g) /\ Size(g) = n
  <1> DEFINE S == {g[i] : i \in 1..n}
  <1>1. \A i \in 1..n : g[i] \in S
    OBVIOUS
  <1> HIDE DEF S
  <1>2. g \in Seq(S) /\ Size(g) = n
    BY <1>1 DEF Size
  <1> QED
    BY <1>2 DEF IsSequence

\* The prices of the nozzles: the first is that of the order.
PriceGroups(first, nozzle) ==
    [i \in 1..5 * nozzle |-> IF i % 5 = 1 THEN 49 ELSE IF i <= 5 THEN first[i - 1] ELSE 48]

\* The groups are five bytes for each nozzle, and the price is in the first of them.
LEMMA AdastPrices ==
    ASSUME NEW first, NEW nozzle, nozzle \in 1..6, IsSequence(first), Size(first) = 4
    PROVE  /\ IsSequence(PriceGroups(first, nozzle))
           /\ Size(PriceGroups(first, nozzle)) = 5 * nozzle
           /\ Has(PriceGroups(first, nozzle), 1, first)
  <1> DEFINE n == 5 * nozzle
             g == PriceGroups(first, nozzle)
  <1>1. n \in Nat /\ n >= 5
    OBVIOUS
  <1>2. g = [i \in 1..n |-> g[i]]
    BY DEF PriceGroups
  <1>4. g[2] = first[1] /\ g[3] = first[2] /\ g[4] = first[3] /\ g[5] = first[4]
    <2>1. 2 \in 1..n /\ 3 \in 1..n /\ 4 \in 1..n /\ 5 \in 1..n
      BY <1>1
    <2>2. 2 % 5 # 1 /\ 3 % 5 # 1 /\ 4 % 5 # 1 /\ 5 % 5 # 1
      OBVIOUS
    <2> QED
      BY <2>1, <2>2 DEF PriceGroups
  <1> HIDE DEF n, g
  <1>5. IsSequence(g) /\ Size(g) = n
    BY <1>1, <1>2, FunctionIsSequence
  <1>6. Has(g, 1, first)
    <2>1. 1 + Size(first) <= Size(g)
      BY <1>1, <1>5
    <2>2. \A i \in 1..4 : g[1 + i] = first[i]
      BY <1>4
    <2> QED
      BY <2>1, <2>2 DEF Has
  <1> QED
    BY <1>5, <1>6 DEF n, g

\* A pump of one nozzle hears the order if the protocol has room for it, and otherwise
\* nothing; for another nozzle the length byte is not true.
LEMMA AdastRunHeard ==
    ASSUME NEW a, NEW nozzle, NEW volume, NEW price, NEW cmd, a \in Int, nozzle \in 1..6,
           volume \in Nat, price \in Nat, volume <= LargestVolume, price <= LargestPrice,
           cmd.nozzle = nozzle, cmd.volume = volume, cmd.price = price
    PROVE  Adast!Heard(Adast!RunCommand(cmd, a), a) =
               IF volume < 10000000 /\ price < 10000 /\ nozzle = 1
               THEN {[type |-> "WRITE_VOLUME", nozzle |-> nozzle,
                      volume |-> 10 * (volume \div 10), price |-> price]}
               ELSE {}
  <1> DEFINE v == volume \div 10
             d == Digits(v, 6)
             e == Digits(price, 4)
             g == PriceGroups(e, nozzle)
             start == <<57, 48 + nozzle, 86>>
             data == start \o d \o g
             packet == Adast!Frame(a, 14, data)
             fits == volume < 10000000 /\ price < 10000
  <1>1. Adast!RunCommand(cmd, a) = packet
    <2>1. d = Adast!Digits(v, 6) /\ e = Adast!Digits(price, 4)
      BY AdastNumbers
    <2>2. Adast!RunCommand(cmd, a)
             = Adast!Frame(a, 14, start \o Adast!Digits(v, 6) \o
                              PriceGroups(Adast!Digits(price, 4), nozzle))
      BY DEF Adast!RunCommand, PriceGroups
    <2> HIDE DEF d, e, start
    <2> QED
      BY <2>1, <2>2
  <1>2. v \in Nat /\ v <= 16777215 /\ (v < 1000000 <=> volume < 10000000)
    BY SMT DEF LargestVolume
  <1> HIDE DEF v
  <1>3. IsSequence(d) /\ Size(d) = 6 /\ IsSequence(e) /\ Size(e) = 4
    BY DigitsIsSequence, 6 \in 2..10, 4 \in 2..10
  <1>4. IsSequence(start) /\ Size(start) = 3
    BY Tuples
  <1> HIDE DEF d, e, start
  <1>5. IsSequence(g) /\ Size(g) = 5 * nozzle /\ Has(g, 1, e)
    BY <1>3, AdastPrices
  <1> HIDE DEF g
  <1>6. Of3(data, start, d, g)
    BY <1>3, <1>4, <1>5, ThreeParts
  <1>7. packet = Adast!Frame(a, 14, data)
    OBVIOUS
  <1> HIDE DEF data, packet, fits
  <1>8. /\ IsSequence(data) /\ Size(data) = 9 + 5 * nozzle
        /\ Has(data, 0, start) /\ Has(data, 3, d) /\ Has(data, 9, g)
    <2>1. Size(start) + Size(d) = 9 /\ Size(start) + Size(d) + Size(g) = 9 + 5 * nozzle
      BY <1>3, <1>4, <1>5
    <2> QED
      BY <1>4, <1>6, <2>1 DEF Of3
  <1>9. /\ Has(packet, 2, <<a, 14>>) /\ Has(packet, 4, data)
        /\ Size(packet) = Size(data) + 7 /\ Adast!CheckCheckSum(packet)
    BY <1>7, <1>8, AdastFramed
  <1>10. Size(packet) = 16 + 5 * nozzle /\ Size(packet) \in Nat
         /\ Size(data) \in Nat /\ Size(g) \in Nat
    BY <1>5, <1>8, <1>9
  <1>11. Has(packet, 4 + 0, start) /\ Has(packet, 4 + 3, d) /\ Has(packet, 4 + 9, g)
    BY <1>3, <1>4, <1>8, <1>9, <1>10, PartOfPart, 0 \in Nat, 3 \in Nat, 4 \in Nat, 6 \in Nat,
       9 \in Nat
  <1>12. Has(packet, 4, start) /\ Has(packet, 7, d) /\ Has(packet, 13, g)
    BY <1>11, 4 + 0 = 4, 4 + 3 = 7, 4 + 9 = 13
  <1>13. Has(packet, 13 + 1, e)
    BY <1>3, <1>5, <1>10, <1>12, PartOfPart, 13 \in Nat, 1 \in Nat, 4 \in Nat
  <1>14. At(packet, 2) = a /\ At(packet, 3) = 14
    BY <1>9, TwoAt, 2 \in Nat, 2 + 1 = 3
  <1>15. At(packet, 4) = 57 /\ At(packet, 5) = 48 + nozzle
    <2>1. Has(packet, 4, <<57, 48 + nozzle, 86>>)
      BY <1>12 DEF start
    <2> QED
      BY <2>1, ThreeAt, 4 \in Nat, 4 + 1 = 5
  <1>16. Slice(packet, 7, 6) = d /\ Slice(packet, 14, 4) = e
    BY <1>3, <1>12, <1>13, PartSliced, 7 \in Nat, 14 \in Nat, 13 + 1 = 14
  <1>17. AreDigits(d \o e) <=> fits
    <2>1. Of2(d \o e, d, e)
      BY <1>3, TwoParts
    <2>2. AreDigits(d \o e) <=> AreDigits(d) /\ AreDigits(e)
      BY <1>3, <2>1, DigitsOfTwo
    <2>3. AreDigits(d) <=> v < 1000000
      BY <1>2, SixFit, SMT DEF d
    <2>4. AreDigits(e) <=> price < 10000
      BY FourFit, SMT DEF e, LargestPrice
    <2> QED
      BY <1>2, <2>2, <2>3, <2>4 DEF fits
  <1>18. FromDigits(d) = v /\ FromDigits(e) = price
    BY <1>2, DigitsReadBack, SMT DEF d, e, LargestPrice
  <1>19. /\ Adast!At(packet, 4) = 57 /\ Adast!At(packet, 5) = 48 + nozzle
         /\ Adast!At(packet, 3) = 14 /\ Adast!AddrOfPacket(packet) = a
    BY <1>14, <1>15, AdastNumbers DEF Adast!AddrOfPacket
  <1>20. Adast!Slice(packet, 7, 6) = d /\ Adast!Slice(packet, 14, 4) = e
    BY <1>16, AdastNumbers
  <1>21. /\ Adast!AreDigits(d \o e) = AreDigits(d \o e)
         /\ Adast!FromDigits(d) = v /\ Adast!FromDigits(e) = price
    BY <1>18, AdastNumbers
  <1>22. 14 # Len(packet) - 7 <=> nozzle # 1
    BY <1>10 DEF Size
  <1>23. (48 + nozzle) - 48 = nozzle
    OBVIOUS
  <1>24. Adast!Heard(packet, a) =
              IF \/ Adast!At(packet, 3) # Len(packet) - 7
                 \/ ~Adast!AreDigits(Adast!Slice(packet, 7, 6) \o Adast!Slice(packet, 14, 4))
              THEN {}
              ELSE {[type |-> "WRITE_VOLUME", nozzle |-> Adast!At(packet, 5) - 48,
                     volume |-> 10 * Adast!FromDigits(Adast!Slice(packet, 7, 6)),
                     price |-> Adast!FromDigits(Adast!Slice(packet, 14, 4))]}
    BY <1>9, <1>19, AdastHearsRun
  <1>25. Adast!Heard(packet, a) =
              IF nozzle # 1 \/ ~fits THEN {}
              ELSE {[type |-> "WRITE_VOLUME", nozzle |-> nozzle, volume |-> 10 * v,
                     price |-> price]}
    BY <1>17, <1>19, <1>20, <1>21, <1>22, <1>23, <1>24, Zenon
  <1> QED
    BY <1>1, <1>25, SMT DEF v, fits

\* A pump that is told a price hears this price, or nothing if it has too many digits.
LEMMA AdastPriceHeard ==
    ASSUME NEW a, NEW price, NEW cmd, a \in Int, price \in Nat, price <= LargestPrice,
           cmd.price = price
    PROVE  Adast!Heard(Adast!SetPriceRequest(cmd, a), a) =
               IF price < 10000 THEN {[type |-> "WRITE_MONEY", price |-> price]} ELSE {}
  <1> DEFINE d == Digits(price, 4)
             start == <<52, 1>>
             data == start \o d
             packet == Adast!Frame(a, 6, data)
  <1>1. Adast!SetPriceRequest(cmd, a) = packet
    BY AdastNumbers DEF Adast!SetPriceRequest
  <1>2. IsSequence(d) /\ Size(d) = 4
    BY DigitsIsSequence, 4 \in 2..10
  <1>3. IsSequence(start) /\ Size(start) = 2
    BY Tuples
  <1>4. (AreDigits(d) <=> price < 10000) /\ FromDigits(d) = price
    BY FourFit, DigitsReadBack, SMT DEF LargestPrice
  <1>5. packet = Adast!Frame(a, 6, data)
    OBVIOUS
  <1> HIDE DEF d, start
  <1>6. Of2(data, start, d)
    BY <1>2, <1>3, TwoParts
  <1> HIDE DEF data, packet
  <1>7. IsSequence(data) /\ Size(data) = 6 /\ Has(data, 0, start) /\ Has(data, 2, d)
    BY <1>2, <1>3, <1>6, 2 + 4 = 6 DEF Of2
  <1>8. /\ Has(packet, 2, <<a, 6>>) /\ Has(packet, 4, data)
        /\ Size(packet) = 13 /\ Adast!CheckCheckSum(packet)
    BY <1>5, <1>7, AdastFramed, 6 + 7 = 13
  <1>9. Has(packet, 4 + 0, start) /\ Has(packet, 4 + 2, d)
    BY <1>2, <1>3, <1>7, <1>8, PartOfPart, 0 \in Nat, 2 \in Nat, 4 \in Nat, 6 \in Nat, 13 \in Nat
  <1>10. At(packet, 2) = a /\ At(packet, 3) = 6
    BY <1>8, TwoAt, 2 \in Nat, 2 + 1 = 3
  <1>11. At(packet, 4) = 52
    <2>1. Has(packet, 4, <<52, 1>>)
      BY <1>9, 4 + 0 = 4 DEF start
    <2> QED
      BY <2>1, TwoAt, 4 \in Nat
  <1>12. Slice(packet, 6, 4) = d
    BY <1>2, <1>9, PartSliced, 6 \in Nat, 4 + 2 = 6
  <1>13. /\ Adast!At(packet, 4) = 52 /\ Adast!At(packet, 3) = Len(packet) - 7
         /\ Adast!AddrOfPacket(packet) = a
    BY <1>8, <1>10, <1>11, AdastNumbers, 13 - 7 = 6 DEF Adast!AddrOfPacket, Size
  <1>14. Adast!Heard(packet, a) =
              IF ~Adast!AreDigits(Adast!Slice(packet, 6, 4)) THEN {}
              ELSE {[type |-> "WRITE_MONEY",
                     price |-> Adast!FromDigits(Adast!Slice(packet, 6, 4))]}
    BY <1>8, <1>13, AdastHearsPrice
  <1>15. /\ Adast!AreDigits(Adast!Slice(packet, 6, 4)) = AreDigits(d)
         /\ Adast!FromDigits(Adast!Slice(packet, 6, 4)) = price
    BY <1>4, <1>12, AdastNumbers
  <1>16. Adast!Heard(packet, a) =
              IF ~AreDigits(d) THEN {} ELSE {[type |-> "WRITE_MONEY", price |-> price]}
    BY <1>14, <1>15, Zenon
  <1> QED
    BY <1>1, <1>4, <1>16

-----------------------------------------------------------------------------
(***************************************************************************)
(* Shelf: the requests.                                                    *)
(***************************************************************************)

\* The two ends of Shelf count in the same way.
LEMMA ShelfNumbers ==
    /\ \A n, k : Shelf!Digits(n, k) = Digits(n, k)
    /\ \A n, k : Shelf!LittleEndian(n, k) = LittleEndian(n, k)
    /\ \A s : Shelf!FromDigits(s) = FromDigits(s)
    /\ \A s : Shelf!FromLittleEndian(s) = FromLittleEndian(s)
    /\ \A s : Shelf!AreDigits(s) = AreDigits(s)
    /\ \A p, i, k : Shelf!Slice(p, i, k) = Slice(p, i, k)
    /\ \A p, i : Shelf!At(p, i) = At(p, i)
    /\ \A b, k : Shelf!Repeat(b, k) = Repeat(b, k)
  <1>1. \A n, k : Shelf!Digits(n, k) = Digits(n, k)
    BY Zenon DEF Shelf!Digits, Digits
  <1>2. \A n, k : Shelf!LittleEndian(n, k) = LittleEndian(n, k)
    BY Zenon DEF Shelf!LittleEndian, LittleEndian
  <1>3. \A s : Shelf!FromDigits(s) = FromDigits(s)
    BY DEF Shelf!FromDigits, FromDigits
  <1>4. \A s : Shelf!FromLittleEndian(s) = FromLittleEndian(s)
    BY DEF Shelf!FromLittleEndian, FromLittleEndian
  <1>5. \A s : Shelf!AreDigits(s) = AreDigits(s)
    BY DEF Shelf!AreDigits, AreDigits
  <1>6. \A p, i, k : Shelf!Slice(p, i, k) = Slice(p, i, k)
    BY DEF Shelf!Slice, Slice
  <1>7. \A p, i : Shelf!At(p, i) = At(p, i)
    BY DEF Shelf!At, At
  <1>8. \A b, k : Shelf!Repeat(b, k) = Repeat(b, k)
    BY DEF Shelf!Repeat, Repeat
  <1> QED
    BY <1>1, <1>2, <1>3, <1>4, <1>5, <1>6, <1>7, <1>8

\* The slave counts as its master does.
LEMMA SlaveNumbers ==
    /\ \A n, k : Slave!Digits(n, k) = Digits(n, k)
    /\ \A n, k : Slave!LittleEndian(n, k) = LittleEndian(n, k)
    /\ \A s : Slave!FromDigits(s) = FromDigits(s)
    /\ \A s : Slave!FromLittleEndian(s) = FromLittleEndian(s)
    /\ \A s : Slave!AreDigits(s) = AreDigits(s)
    /\ \A p, i, k : Slave!Slice(p, i, k) = Slice(p, i, k)
    /\ \A p, i : Slave!At(p, i) = At(p, i)
    /\ \A b, k : Slave!Repeat(b, k) = Repeat(b, k)
  <1>1. \A n, k : Slave!Digits(n, k) = Digits(n, k)
    BY Zenon DEF Slave!Digits, Digits
  <1>2. \A n, k : Slave!LittleEndian(n, k) = LittleEndian(n, k)
    BY Zenon DEF Slave!LittleEndian, LittleEndian
  <1>3. \A s : Slave!FromDigits(s) = FromDigits(s)
    BY DEF Slave!FromDigits, FromDigits
  <1>4. \A s : Slave!FromLittleEndian(s) = FromLittleEndian(s)
    BY DEF Slave!FromLittleEndian, FromLittleEndian
  <1>5. \A s : Slave!AreDigits(s) = AreDigits(s)
    BY DEF Slave!AreDigits, AreDigits
  <1>6. \A p, i, k : Slave!Slice(p, i, k) = Slice(p, i, k)
    BY DEF Slave!Slice, Slice
  <1>7. \A p, i : Slave!At(p, i) = At(p, i)
    BY DEF Slave!At, At
  <1>8. \A b, k : Slave!Repeat(b, k) = Repeat(b, k)
    BY DEF Slave!Repeat, Repeat
  <1> QED
    BY <1>1, <1>2, <1>3, <1>4, <1>5, <1>6, <1>7, <1>8

\* A request: four bytes, the data, and the checksum of all of them.
LEMMA ShelfFramed ==
    ASSUME NEW addr, NEW counter, NEW length, NEW data, NEW packet, IsSequence(data),
           Size(data) >= 1, NEW head, head = <<45, addr, counter, length>>,
           packet = Shelf!Request(addr, counter, length, data)
    PROVE  /\ Has(packet, 0, head) /\ Has(packet, 4, data)
           /\ Size(packet) = Size(data) + 6 /\ Slave!CheckCheckSum(packet)
  <1> DEFINE c    == head \o data
             crc  == LittleEndian(CrcShelf(c), 2)
  <1>0. packet = c \o crc
    BY ShelfNumbers DEF Shelf!Frame, Shelf!Request
  <1>1. IsSequence(crc) /\ Size(crc) = 2
    BY LittleEndianIsSequence, 2 \in 2..4
  <1>2. IsSequence(head) /\ Size(head) = 4
    BY Tuples
  <1>3. Of2(c, head, data)
    BY <1>2, TwoParts
  <1> HIDE DEF crc, c
  <1>4. Of2(packet, c, crc)
    BY <1>0, <1>1, <1>3, TwoParts DEF Of2
  <1>5. /\ Size(c) \in Nat /\ Size(data) \in Nat /\ Size(c) = 4 + Size(data) /\ IsSequence(c)
        /\ Has(c, 0, head) /\ Has(c, 4, data)
    BY <1>2, <1>3, SequencesHaveLengths DEF Of2
  <1>6. Size(packet) = Size(data) + 6 /\ Has(packet, 0, c) /\ Has(packet, Size(c), crc)
    BY <1>1, <1>4, <1>5 DEF Of2
  <1>7. Slice(packet, 0, Size(c)) = c /\ Slice(packet, Size(c), Size(crc)) = crc
    BY <1>1, <1>5, <1>6, PartAt, 0 \in Nat
  <1>8. /\ Size(packet) - 2 = Size(c) /\ Size(packet) - 1 = Size(c) + 1
        /\ Size(packet) = Size(c) + 2
        /\ Size(packet) >= 7 /\ 0 + 1 = 1 /\ 0 + Size(c) = Size(c)
    BY <1>5, <1>6
  <1>9. SubSeq(packet, 1, Size(packet) - 2) = c
    BY <1>7, <1>8 DEF Slice
  <1>10. SubSeq(packet, Size(packet) - 1, Size(packet)) = crc
    BY <1>1, <1>7, <1>8 DEF Slice
  <1>11. Slave!CheckCheckSum(packet)
    BY <1>8, <1>9, <1>10, SlaveNumbers DEF Slave!CheckCheckSum, crc, Size
  <1>12. Has(packet, 0 + 0, head) /\ Has(packet, 0 + 4, data)
    <2>1. Size(packet) \in Nat
      BY <1>5, <1>6
    <2> QED
      BY <1>2, <1>5, <1>6, <2>1, PartOfPart, 0 \in Nat, 4 \in Nat
  <1> QED
    BY <1>6, <1>11, <1>12, 0 + 0 = 0, 0 + 4 = 4

\* The size of a request is that of its data and six bytes more.
LEMMA ShelfRequestSize ==
    ASSUME NEW addr, NEW counter, NEW length, NEW data, NEW packet, NEW n, IsSequence(data),
           n \in Nat, n >= 1, Size(data) = n, packet = Shelf!Request(addr, counter, length, data)
    PROVE  Size(packet) = n + 6
  <1> DEFINE head == <<45, addr, counter, length>>
             c    == head \o data
             crc  == LittleEndian(CrcShelf(c), 2)
  <1>0. packet = c \o crc
    BY ShelfNumbers DEF Shelf!Frame, Shelf!Request
  <1>1. IsSequence(crc) /\ Size(crc) = 2
    BY LittleEndianIsSequence, 2 \in 2..4
  <1>2. IsSequence(head) /\ Size(head) = 4
    BY Tuples
  <1>3. Of2(c, head, data)
    BY <1>2, TwoParts
  <1> HIDE DEF crc, c, head
  <1>4. Of2(packet, c, crc)
    BY <1>0, <1>1, <1>3, TwoParts DEF Of2
  <1> QED
    BY <1>1, <1>2, <1>3, <1>4 DEF Of2

\* The slave reads an order and a price by the fourth byte.
LEMMA SlaveParsesRun ==
    ASSUME NEW packet, Slave!At(packet, 4) = 5
    PROVE  Slave!ParseCmd(packet) =
               {[type |-> "WRITE_VOLUME",
                 pump |-> Slave!GetRequestTrkId(Slave!At(packet, 1)),
                 nozzle |-> Slave!GetRequestPistol(Slave!At(packet, 1)) + 1,
                 volume |-> 10 * Slave!FromLittleEndian(Slave!Slice(packet, 7, 3)),
                 price |-> Slave!FromLittleEndian(Slave!Slice(packet, 10, 2))]}
  <1>1. Slave!ParseCmd(packet) = {Slave!ResolveWriteVolumeRequest(packet)}
    BY SMT DEF Slave!ParseCmd
  <1> QED
    BY <1>1, Zenon DEF Slave!ResolveWriteVolumeRequest

\* The slave has no use for a price in a packet of less than ten bytes.
LEMMA SlaveParsesPrice ==
    ASSUME NEW packet, Slave!At(packet, 4) = 3, Len(packet) < 10
    PROVE  Slave!ParseCmd(packet) = {}
  <1>1. Slave!ParseCmd(packet) = Slave!ResolveSetPriceRequest(packet)
    BY SMT DEF Slave!ParseCmd
  <1> QED
    BY <1>1 DEF Slave!ResolveSetPriceRequest

\* The slave reads an order as it was given, in whole units of 10 ml, and for the address
\* it was sent to.
LEMMA SlaveRunHeard ==
    ASSUME NEW a, NEW counter, NEW volume, NEW price, NEW cmd, a \in Nat,
           volume \in Nat, price \in Nat, volume <= LargestVolume, price <= LargestPrice,
           cmd.volume = volume, cmd.price = price, NEW packet,
           packet = Shelf!RunCommand(cmd, a, counter)
    PROVE  /\ Slave!CheckCheckSum(packet) /\ Slave!At(packet, 1) = a
           /\ Slave!ParseCmd(packet) =
                 {[type |-> "WRITE_VOLUME", pump |-> Slave!GetRequestTrkId(a),
                   nozzle |-> Slave!GetRequestPistol(a) + 1,
                   volume |-> 10 * (volume \div 10), price |-> price]}
  <1> DEFINE v == volume \div 10
             d == LittleEndian(v, 3)
             e == LittleEndian(price, 2)
             start == <<5, 0, 0>>
             data == start \o d \o e
  <1>1. packet = Shelf!Request(a, counter, 14, data)
    <2>1. d = Shelf!LittleEndian(v, 3) /\ e = Shelf!LittleEndian(price, 2)
      BY ShelfNumbers
    <2>2. packet = Shelf!Request(a, counter, 14, start \o Shelf!LittleEndian(v, 3)
                                                 \o Shelf!LittleEndian(price, 2))
      BY DEF Shelf!RunCommand
    <2> HIDE DEF d, e, start
    <2> QED
      BY <2>1, <2>2
  <1>2. v \in Nat /\ v < 16777216
    BY SMT DEF LargestVolume
  <1> HIDE DEF v
  <1>3. IsSequence(d) /\ Size(d) = 3 /\ IsSequence(e) /\ Size(e) = 2
    BY LittleEndianIsSequence, 3 \in 2..4, 2 \in 2..4
  <1>4. IsSequence(start) /\ Size(start) = 3
    BY Tuples
  <1> HIDE DEF d, e, start
  <1>5. Of3(data, start, d, e)
    BY <1>3, <1>4, ThreeParts
  <1> HIDE DEF data
  <1>6. /\ IsSequence(data) /\ Size(data) = 8 /\ Size(data) \in Nat
        /\ Has(data, 0, start) /\ Has(data, 3, d) /\ Has(data, 6, e)
    BY <1>3, <1>4, <1>5, 3 + 3 = 6, 6 + 2 = 8 DEF Of3
  <1>7. /\ Has(packet, 0, <<45, a, counter, 14>>) /\ Has(packet, 4, data)
        /\ Size(packet) = 14 /\ Slave!CheckCheckSum(packet)
    <2>1. Size(data) >= 1 /\ Size(data) + 6 = 14
      BY <1>6
    <2> QED
      BY <1>1, <1>6, <2>1, ShelfFramed
  <1>8. Has(packet, 4 + 0, start) /\ Has(packet, 4 + 3, d) /\ Has(packet, 4 + 6, e)
    BY <1>3, <1>4, <1>6, <1>7, PartOfPart, 0 \in Nat, 2 \in Nat, 3 \in Nat, 4 \in Nat,
       6 \in Nat, 14 \in Nat
  <1>9. At(packet, 1) = a
    BY <1>7, FourAt, 0 \in Nat, 0 + 1 = 1
  <1>10. At(packet, 4) = 5
    <2>1. Has(packet, 4, <<5, 0, 0>>)
      BY <1>8, 4 + 0 = 4 DEF start
    <2> QED
      BY <2>1, ThreeAt, 4 \in Nat
  <1>11. Slice(packet, 7, 3) = d /\ Slice(packet, 10, 2) = e
    BY <1>3, <1>8, PartSliced, 7 \in Nat, 10 \in Nat, 4 + 3 = 7, 4 + 6 = 10
  <1>12. FromLittleEndian(d) = v /\ FromLittleEndian(e) = price
    BY <1>2, BytesReadBack, SMT DEF d, e, LargestPrice
  <1>13. Slave!At(packet, 1) = a /\ Slave!At(packet, 4) = 5
    BY <1>9, <1>10, SlaveNumbers
  <1>14. /\ Slave!FromLittleEndian(Slave!Slice(packet, 7, 3)) = v
         /\ Slave!FromLittleEndian(Slave!Slice(packet, 10, 2)) = price
    BY <1>11, <1>12, SlaveNumbers
  <1>15. Slave!ParseCmd(packet) =
               {[type |-> "WRITE_VOLUME",
                 pump |-> Slave!GetRequestTrkId(Slave!At(packet, 1)),
                 nozzle |-> Slave!GetRequestPistol(Slave!At(packet, 1)) + 1,
                 volume |-> 10 * Slave!FromLittleEndian(Slave!Slice(packet, 7, 3)),
                 price |-> Slave!FromLittleEndian(Slave!Slice(packet, 10, 2))]}
    BY <1>13, SlaveParsesRun
  <1>16. Slave!ParseCmd(packet) =
                 {[type |-> "WRITE_VOLUME", pump |-> Slave!GetRequestTrkId(a),
                   nozzle |-> Slave!GetRequestPistol(a) + 1, volume |-> 10 * v,
                   price |-> price]}
    BY <1>13, <1>14, <1>15, Zenon
  <1> QED
    BY <1>7, <1>13, <1>16 DEF v

\* The slave hears no price: it looks for it behind the end of the packet.
LEMMA SlavePriceHeard ==
    ASSUME NEW a, NEW counter, NEW cmd, NEW packet, packet = Shelf!SetPriceRequest(cmd, a, counter)
    PROVE  Slave!ParseCmd(packet) = {}
  <1> DEFINE e == LittleEndian(cmd.price, 2)
             start == <<3>>
             data == start \o e
  <1>1. packet = Shelf!Request(a, counter, 9, data)
    BY ShelfNumbers DEF Shelf!SetPriceRequest
  <1>2. IsSequence(e) /\ Size(e) = 2
    BY LittleEndianIsSequence, 2 \in 2..4
  <1>3. IsSequence(start) /\ Size(start) = 1
    BY Tuples
  <1> HIDE DEF e, start
  <1>4. Of2(data, start, e)
    BY <1>2, <1>3, TwoParts
  <1> HIDE DEF data
  <1>5. IsSequence(data) /\ Size(data) = 3 /\ Size(data) \in Nat /\ Has(data, 0, start)
    BY <1>2, <1>3, <1>4, 1 + 2 = 3 DEF Of2
  <1>6. Has(packet, 4, data) /\ Size(packet) = 9
    <2>1. Size(data) >= 1 /\ Size(data) + 6 = 9
      BY <1>5
    <2>0. IsSequence(data) /\ Size(data) >= 1 /\ Size(data) \in Nat
      BY <1>5, <2>1
    <2>2. Has(packet, 4, data)
      BY <1>1, <2>0, ShelfFramed
    <2>3. Size(packet) = 3 + 6
      BY <1>1, <1>5, ShelfRequestSize, 3 \in Nat, 3 >= 1
    <2> QED
      BY <2>1, <2>2, <2>3
  <1>7. Has(packet, 4 + 0, start)
    BY <1>3, <1>5, <1>6, PartOfPart, 0 \in Nat, 1 \in Nat, 4 \in Nat, 9 \in Nat
  <1>8. At(packet, 4) = 3
    <2>1. Has(packet, 4, <<3>>)
      BY <1>7, 4 + 0 = 4 DEF start
    <2> QED
      BY <2>1, OneAt, 4 \in Nat
  <1>9. Slave!At(packet, 4) = 3 /\ Len(packet) < 10
    BY <1>6, <1>8, SlaveNumbers DEF Size
  <1> QED
    BY <1>9, SlaveParsesPrice

-----------------------------------------------------------------------------
(***************************************************************************)
(* What a pump has heard of its order.                                     *)
(***************************************************************************)

\* What was heard is what the order asks for.
IsOf(h, order, lang) ==
    /\ h \in OrderCmd
    /\ h.price = order.price
    /\ lang # "Shelf" => h.price < 10000
    /\ h.type = "WRITE_VOLUME" =>
          /\ h.volume = 10 * (order.volume \div 10)
          /\ lang # "Shelf" => h.nozzle = order.nozzle

\* An order has a nozzle, a volume and a price.
LEMMA OrderFields ==
    ASSUME NEW p, NEW order, p \in Pumps, order \in Orders[p]
    PROVE  /\ order.nozzle \in 1..6 /\ order.volume \in Nat /\ order.price \in Nat
           /\ order.volume <= LargestVolume /\ order.price <= LargestPrice
           /\ order # NoOrder
  <1>1. /\ order \in [nozzle : 1..6, volume : Nat, price : Nat]
        /\ order.volume <= LargestVolume /\ order.price <= LargestPrice
    BY OrdersAssumption
  <1>2. NoOrder.nozzle = 0
    BY DEF NoOrder
  <1> QED
    BY <1>1, <1>2

\* The addresses of the columns are numbers from 10 to 31.
LEMMA Addressed ==
    ASSUME NEW p, p \in Pumps
    PROVE  Addr[p] \in 10..31 /\ Addr[p] \in Nat
  <1>1. Addr[p] \in 10..31
    BY PumpsAssumption
  <1> QED
    BY <1>1

\* The commands a pump may hear of an order.
LEMMA OrderCmds ==
    ASSUME NEW volume, NEW price, NEW nozzle, NEW id, volume \in Nat, price \in Nat, nozzle \in Nat,
           id \in Nat
    PROVE  /\ [type |-> "WRITE_MONEY", price |-> price] \in OrderCmd
           /\ [type |-> "WRITE_VOLUME", nozzle |-> nozzle, volume |-> volume, price |-> price]
                 \in OrderCmd
           /\ [type |-> "WRITE_VOLUME", pump |-> id, nozzle |-> nozzle, volume |-> volume,
               price |-> price] \in OrderCmd
  BY DEF OrderCmd

\* A volume in whole units of 10 ml is a number.
LEMMA WholeUnits == ASSUME NEW v, v \in Nat PROVE 10 * (v \div 10) \in Nat
  OBVIOUS

SetPriceOf(order) == [type |-> "WRITE_MONEY", nozzle |-> 0, volume |-> 0, price |-> order.price]
RunOf(order)      == [type |-> "WRITE_VOLUME", nozzle |-> order.nozzle,
                      volume |-> order.volume, price |-> order.price]

\* A pump that speaks Unipump hears of an order what the order asks for.
LEMMA UnipumpOrderHeard ==
    ASSUME NEW p, NEW order, NEW c, p \in Pumps, order \in Orders[p], protocol = "Unipump"
    PROVE  /\ \A h \in Heard(p, PreparePacket(SetPriceOf(order), Addr[p], c)) :
                 IsOf(h, order, protocol)
           /\ \A h \in Heard(p, PreparePacket(RunOf(order), Addr[p], c)) :
                 IsOf(h, order, protocol)
           /\ Fits(order) =>
                 \E h \in Heard(p, PreparePacket(RunOf(order), Addr[p], c)) :
                    h.type = "WRITE_VOLUME"
  <1> DEFINE a == Addr[p]
             nozzle == order.nozzle
             volume == order.volume
             price == order.price
             v == 10 * (volume \div 10)
             r == [type |-> "WRITE_VOLUME", nozzle |-> nozzle, volume |-> v, price |-> price]
             q == [type |-> "WRITE_MONEY", price |-> price]
             told == Heard(p, PreparePacket(SetPriceOf(order), a, c))
             run == Heard(p, PreparePacket(RunOf(order), a, c))
  <1>1. /\ nozzle \in 1..6 /\ volume \in Nat /\ price \in Nat
        /\ volume <= LargestVolume /\ price <= LargestPrice
    BY OrderFields
  <1>2. a \in Int
    BY Addressed
  <1>3. told = Unipump!Heard(Unipump!SetPriceRequest(SetPriceOf(order), a), a)
    <2>1. SetPriceOf(order).type = "WRITE_MONEY"
      BY DEF SetPriceOf
    <2>2. PreparePacket(SetPriceOf(order), a, c) = Unipump!SetPriceRequest(SetPriceOf(order), a)
      BY <2>1 DEF PreparePacket, Unipump!PreparePacket
    <2> QED
      BY <2>2 DEF Heard
  <1>4. run = Unipump!Heard(Unipump!RunCommand(RunOf(order), a), a)
    <2>1. RunOf(order).type = "WRITE_VOLUME"
      BY DEF RunOf
    <2>2. PreparePacket(RunOf(order), a, c) = Unipump!RunCommand(RunOf(order), a)
      BY <2>1 DEF PreparePacket, Unipump!PreparePacket
    <2> QED
      BY <2>2 DEF Heard
  <1>5. SetPriceOf(order).price = price
    BY DEF SetPriceOf
  <1>6. RunOf(order).nozzle = nozzle /\ RunOf(order).volume = volume /\ RunOf(order).price = price
    BY DEF RunOf
  <1> HIDE DEF a, nozzle, volume, price, told, run
  <1>7. told = IF price < 10000 THEN {q} ELSE {}
    BY <1>1, <1>2, <1>3, <1>5, UnipumpPriceHeard
  <1>8. run = IF volume < 10000000 /\ price < 10000 THEN {r} ELSE {}
    BY <1>1, <1>2, <1>4, <1>6, UnipumpRunHeard, nozzle \in Int
  <1>9. v \in Nat /\ nozzle \in Nat
    BY <1>1, WholeUnits
  <1>10. q \in OrderCmd /\ r \in OrderCmd
    BY <1>1, <1>9, OrderCmds, 0 \in Nat
  <1>11. /\ q.price = price /\ q.type = "WRITE_MONEY"
         /\ r.price = price /\ r.type = "WRITE_VOLUME" /\ r.volume = v /\ r.nozzle = nozzle
    OBVIOUS
  <1> HIDE DEF q, r
  <1>12. price < 10000 => IsOf(q, order, protocol) /\ IsOf(r, order, protocol)
    BY <1>10, <1>11 DEF IsOf, price, v, volume, nozzle
  <1>13. Fits(order) => volume < 10000000 /\ price < 10000
    BY DEF Fits, volume, price
  <1> QED
    BY <1>7, <1>8, <1>11, <1>12, <1>13 DEF told, run, a

\* So does one that speaks Adast,
LEMMA AdastOrderHeard ==
    ASSUME NEW p, NEW order, NEW c, p \in Pumps, order \in Orders[p], protocol = "Adast"
    PROVE  /\ \A h \in Heard(p, PreparePacket(SetPriceOf(order), Addr[p], c)) :
                 IsOf(h, order, protocol)
           /\ \A h \in Heard(p, PreparePacket(RunOf(order), Addr[p], c)) :
                 IsOf(h, order, protocol)
           /\ Fits(order) =>
                 \E h \in Heard(p, PreparePacket(RunOf(order), Addr[p], c)) :
                    h.type = "WRITE_VOLUME"
  <1> DEFINE a == Addr[p]
             nozzle == order.nozzle
             volume == order.volume
             price == order.price
             v == 10 * (volume \div 10)
             r == [type |-> "WRITE_VOLUME", nozzle |-> nozzle, volume |-> v, price |-> price]
             q == [type |-> "WRITE_MONEY", price |-> price]
             told == Heard(p, PreparePacket(SetPriceOf(order), a, c))
             run == Heard(p, PreparePacket(RunOf(order), a, c))
  <1>1. /\ nozzle \in 1..6 /\ volume \in Nat /\ price \in Nat
        /\ volume <= LargestVolume /\ price <= LargestPrice
    BY OrderFields
  <1>2. a \in Int
    BY Addressed
  <1>3. told = Adast!Heard(Adast!SetPriceRequest(SetPriceOf(order), a), a)
    <2>1. SetPriceOf(order).type = "WRITE_MONEY"
      BY DEF SetPriceOf
    <2>2. PreparePacket(SetPriceOf(order), a, c) = Adast!SetPriceRequest(SetPriceOf(order), a)
      BY <2>1 DEF PreparePacket, Adast!PreparePacket
    <2> QED
      BY <2>2 DEF Heard
  <1>4. run = Adast!Heard(Adast!RunCommand(RunOf(order), a), a)
    <2>1. RunOf(order).type = "WRITE_VOLUME"
      BY DEF RunOf
    <2>2. PreparePacket(RunOf(order), a, c) = Adast!RunCommand(RunOf(order), a)
      BY <2>1 DEF PreparePacket, Adast!PreparePacket
    <2> QED
      BY <2>2 DEF Heard
  <1>5. SetPriceOf(order).price = price
    BY DEF SetPriceOf
  <1>6. RunOf(order).nozzle = nozzle /\ RunOf(order).volume = volume /\ RunOf(order).price = price
    BY DEF RunOf
  <1> HIDE DEF a, nozzle, volume, price, told, run
  <1>7. told = IF price < 10000 THEN {q} ELSE {}
    BY <1>1, <1>2, <1>3, <1>5, AdastPriceHeard
  <1>8. run = IF volume < 10000000 /\ price < 10000 /\ nozzle = 1 THEN {r} ELSE {}
    BY <1>1, <1>2, <1>4, <1>6, AdastRunHeard
  <1>9. v \in Nat /\ nozzle \in Nat
    BY <1>1, WholeUnits
  <1>10. q \in OrderCmd /\ r \in OrderCmd
    BY <1>1, <1>9, OrderCmds, 0 \in Nat
  <1>11. /\ q.price = price /\ q.type = "WRITE_MONEY"
         /\ r.price = price /\ r.type = "WRITE_VOLUME" /\ r.volume = v /\ r.nozzle = nozzle
    OBVIOUS
  <1> HIDE DEF q, r
  <1>12. price < 10000 => IsOf(q, order, protocol) /\ IsOf(r, order, protocol)
    BY <1>10, <1>11 DEF IsOf, price, v, volume, nozzle
  <1>13. Fits(order) => volume < 10000000 /\ price < 10000 /\ nozzle = 1
    BY DEF Fits, volume, price, nozzle
  <1> QED
    BY <1>7, <1>8, <1>11, <1>12, <1>13 DEF told, run, a

\* and the program's own slave of Shelf, which hears every order.
LEMMA ShelfOrderHeard ==
    ASSUME NEW p, NEW order, NEW c, p \in Pumps, order \in Orders[p], protocol = "Shelf",
           protocol \in Protocols
    PROVE  /\ \A h \in Heard(p, PreparePacket(SetPriceOf(order), Addr[p], c)) :
                 IsOf(h, order, protocol)
           /\ \A h \in Heard(p, PreparePacket(RunOf(order), Addr[p], c)) :
                 IsOf(h, order, protocol)
           /\ \E h \in Heard(p, PreparePacket(RunOf(order), Addr[p], c)) :
                    h.type = "WRITE_VOLUME"
  <1> DEFINE a == Addr[p]
             nozzle == Slave!GetRequestPistol(a) + 1
             volume == order.volume
             price == order.price
             v == 10 * (volume \div 10)
             r == [type |-> "WRITE_VOLUME", pump |-> p, nozzle |-> nozzle, volume |-> v,
                   price |-> price]
             n == Shelf!NextCounter(a, c)
             setPrice == Shelf!SetPriceRequest(SetPriceOf(order), a, n)
             runPacket == Shelf!RunCommand(RunOf(order), a, n)
             told == Heard(p, PreparePacket(SetPriceOf(order), a, c))
             run == Heard(p, PreparePacket(RunOf(order), a, c))
  <1>1. /\ volume \in Nat /\ price \in Nat
        /\ volume <= LargestVolume /\ price <= LargestPrice
    BY OrderFields
  <1>2. a \in Nat
    BY Addressed
  <1>3. PreparePacket(SetPriceOf(order), a, c) = setPrice
    <2>1. SetPriceOf(order).type = "WRITE_MONEY"
      BY DEF SetPriceOf
    <2> QED
      BY <2>1 DEF PreparePacket, Shelf!PreparePacket
  <1>4. PreparePacket(RunOf(order), a, c) = runPacket
    <2>1. RunOf(order).type = "WRITE_VOLUME"
      BY DEF RunOf
    <2> QED
      BY <2>1 DEF PreparePacket, Shelf!PreparePacket
  <1>5. RunOf(order).volume = volume /\ RunOf(order).price = price
    BY DEF RunOf
  <1>6. Slave!GetRequestTrkId(a) = p
    BY PumpsAssumption
  <1>7. nozzle \in Nat
    BY <1>2 DEF Slave!GetRequestPistol
  <1>8. p \in Nat
    BY PumpsAssumption
  <1>9. /\ runPacket = Shelf!RunCommand(RunOf(order), a, n)
        /\ setPrice = Shelf!SetPriceRequest(SetPriceOf(order), a, n)
    OBVIOUS
  <1> HIDE DEF a, nozzle, volume, price, n, setPrice, runPacket
  <1>10. /\ Slave!CheckCheckSum(runPacket) /\ Slave!At(runPacket, 1) = a
         /\ Slave!ParseCmd(runPacket) =
                 {[type |-> "WRITE_VOLUME", pump |-> Slave!GetRequestTrkId(a),
                   nozzle |-> Slave!GetRequestPistol(a) + 1,
                   volume |-> v, price |-> price]}
    BY <1>1, <1>2, <1>5, <1>9, SlaveRunHeard
  <1>11. Slave!ParseCmd(setPrice) = {}
    BY <1>9, SlavePriceHeard
  <1>12. told = {}
    BY <1>3, <1>11 DEF Heard
  <1>13. run = {r}
    <2>1. At(runPacket, 1) = a
      BY <1>10, SlaveNumbers
    <2>2. run = Slave!ParseCmd(runPacket)
      BY <1>4, <1>6, <1>10, <2>1 DEF Heard
    <2> QED
      BY <1>6, <1>10, <2>2, Zenon DEF nozzle
  <1>14. v \in Nat
    BY <1>1, WholeUnits
  <1>15. r \in OrderCmd
    BY <1>1, <1>7, <1>8, <1>14, OrderCmds
  <1>16. r.price = price /\ r.type = "WRITE_VOLUME" /\ r.volume = v
    OBVIOUS
  <1> HIDE DEF r, told, run
  <1>17. IsOf(r, order, protocol)
    BY <1>15, <1>16 DEF IsOf, price, v, volume
  <1> QED
    BY <1>12, <1>13, <1>16, <1>17 DEF told, run, a

\* Whatever the protocol, a pump hears of an order what the order asks for, and hears the
\* order if the protocol has room for it.
LEMMA OrderHeard ==
    ASSUME NEW p, NEW order, NEW c, p \in Pumps, order \in Orders[p], protocol \in Protocols
    PROVE  /\ \A h \in Heard(p, PreparePacket(SetPriceOf(order), Addr[p], c)) :
                 IsOf(h, order, protocol)
           /\ \A h \in Heard(p, PreparePacket(RunOf(order), Addr[p], c)) :
                 IsOf(h, order, protocol)
           /\ Fits(order) =>
                 \E h \in Heard(p, PreparePacket(RunOf(order), Addr[p], c)) :
                    h.type = "WRITE_VOLUME"
  <1>1. protocol = "Unipump" \/ protocol = "Adast" \/ protocol = "Shelf"
    BY PumpsAssumption
  <1>2. CASE protocol = "Unipump"
    BY <1>2, UnipumpOrderHeard
  <1>3. CASE protocol = "Adast"
    BY <1>3, AdastOrderHeard
  <1>4. CASE protocol = "Shelf"
    BY <1>4, ShelfOrderHeard
  <1> QED
    BY <1>1, <1>2, <1>3, <1>4

\* What is the state of a pump, and how it is changed.
LEMMA PumpStates ==
    /\ \A r \in PumpState :
          /\ r = [phase |-> r.phase, txn |-> r.txn, sales |-> r.sales, ordered |-> r.ordered,
                  heard |-> r.heard, portions |-> r.portions]
          /\ r.phase \in {"hung", "lifted", "filling", "done"} /\ r.txn \in Nat /\ r.sales \in Nat
          /\ r.ordered \in AllOrders \cup {NoOrder}
          /\ r.heard \in SUBSET OrderCmd /\ r.portions \in 0..MaxPortions
    /\ \A phase, txn, sales, ordered, heard, portions :
          /\ phase \in {"hung", "lifted", "filling", "done"} /\ txn \in Nat /\ sales \in Nat
          /\ ordered \in AllOrders \cup {NoOrder}
          /\ heard \in SUBSET OrderCmd /\ portions \in 0..MaxPortions
          => [phase |-> phase, txn |-> txn, sales |-> sales, ordered |-> ordered,
              heard |-> heard, portions |-> portions] \in PumpState
  BY DEF PumpState

\* A pump that goes into another phase keeps the rest of its state.
LEMMA PhaseChanged ==
    ASSUME NEW r \in PumpState, NEW phase \in {"hung", "lifted", "filling", "done"}
    PROVE  LET t == [r EXCEPT !.phase = phase]
           IN  /\ t \in PumpState
               /\ t.phase = phase /\ t.txn = r.txn /\ t.sales = r.sales
               /\ t.ordered = r.ordered /\ t.heard = r.heard /\ t.portions = r.portions
  <1> DEFINE t == [r EXCEPT !.phase = phase]
             v0 == [phase |-> r.phase, txn |-> r.txn, sales |-> r.sales,
                   ordered |-> r.ordered, heard |-> r.heard, portions |-> r.portions]
             v1 == [phase |-> phase, txn |-> r.txn, sales |-> r.sales,
                   ordered |-> r.ordered, heard |-> r.heard, portions |-> r.portions]
  <1>0. r = v0
    BY PumpStates
  <1>1. [v0 EXCEPT !.phase = phase] = v1
    OBVIOUS
  <1>2. t = v1
    BY <1>0, <1>1, Zenon
  <1>3. v1 \in PumpState
    BY PumpStates
  <1> HIDE DEF t
  <1>4. /\ t \in PumpState
        /\ t.phase = phase /\ t.txn = r.txn /\ t.sales = r.sales
        /\ t.ordered = r.ordered /\ t.heard = r.heard /\ t.portions = r.portions
    BY <1>2, <1>3
  <1> QED
    BY <1>4 DEF t

\* So does one whose nozzle is lifted, but for the count of its sales,
LEMMA NozzleLifted ==
    ASSUME NEW r \in PumpState
    PROVE  LET t == [r EXCEPT !.phase = "lifted", !.sales = @ + 1]
           IN  /\ t \in PumpState
               /\ t.phase = "lifted" /\ t.txn = r.txn /\ t.sales = r.sales + 1
               /\ t.ordered = r.ordered /\ t.heard = r.heard /\ t.portions = r.portions
  <1> DEFINE t == [r EXCEPT !.phase = "lifted", !.sales = @ + 1]
             v0 == [phase |-> r.phase, txn |-> r.txn, sales |-> r.sales,
                   ordered |-> r.ordered, heard |-> r.heard, portions |-> r.portions]
             v1 == [phase |-> "lifted", txn |-> r.txn, sales |-> r.sales,
                   ordered |-> r.ordered, heard |-> r.heard, portions |-> r.portions]
             v2 == [phase |-> "lifted", txn |-> r.txn, sales |-> r.sales + 1,
                   ordered |-> r.ordered, heard |-> r.heard, portions |-> r.portions]
  <1>0. r = v0
    BY PumpStates
  <1>1. [v0 EXCEPT !.phase = "lifted"] = v1
    OBVIOUS
  <1>2. [v1 EXCEPT !.sales = r.sales + 1] = v2
    OBVIOUS
  <1>3. t = v2
    BY <1>0, <1>1, <1>2, Zenon
  <1>4. r.sales + 1 \in Nat
    BY PumpStates
  <1>5. v2 \in PumpState
    BY <1>4, PumpStates
  <1> HIDE DEF t
  <1>6. /\ t \in PumpState
        /\ t.phase = "lifted" /\ t.txn = r.txn /\ t.sales = r.sales + 1
        /\ t.ordered = r.ordered /\ t.heard = r.heard /\ t.portions = r.portions
    BY <1>3, <1>5
  <1> QED
    BY <1>6 DEF t

\* and one that dispenses, but for its portions.
LEMMA PortionDispensed ==
    ASSUME NEW r \in PumpState, r.portions < MaxPortions
    PROVE  LET t == [r EXCEPT !.portions = @ + 1]
           IN  /\ t \in PumpState
               /\ t.phase = r.phase /\ t.txn = r.txn /\ t.sales = r.sales
               /\ t.ordered = r.ordered /\ t.heard = r.heard /\ t.portions = r.portions + 1
  <1> DEFINE t == [r EXCEPT !.portions = @ + 1]
             v0 == [phase |-> r.phase, txn |-> r.txn, sales |-> r.sales,
                   ordered |-> r.ordered, heard |-> r.heard, portions |-> r.portions]
             v1 == [phase |-> r.phase, txn |-> r.txn, sales |-> r.sales,
                   ordered |-> r.ordered, heard |-> r.heard, portions |-> r.portions + 1]
  <1>0. r = v0
    BY PumpStates
  <1>1. [v0 EXCEPT !.portions = r.portions + 1] = v1
    OBVIOUS
  <1>2. t = v1
    BY <1>0, <1>1, Zenon
  <1>3. r.portions + 1 \in 0..MaxPortions
    BY PumpStates, BoundsAssumption
  <1>4. v1 \in PumpState
    BY <1>3, PumpStates
  <1> HIDE DEF t
  <1>5. /\ t \in PumpState
        /\ t.phase = r.phase /\ t.txn = r.txn /\ t.sales = r.sales
        /\ t.ordered = r.ordered /\ t.heard = r.heard /\ t.portions = r.portions + 1
    BY <1>2, <1>4
  <1> QED
    BY <1>5 DEF t

OrderTakenBy(r, phase, order, heard) ==
    [r EXCEPT !.phase = phase, !.ordered = order, !.heard = heard]

\* A pump that takes an order keeps the number of its sale.
LEMMA OrderTaken ==
    ASSUME NEW r, NEW phase, NEW order, NEW heard, r \in PumpState,
           phase \in {"hung", "lifted", "filling", "done"}, order \in AllOrders,
           heard \in SUBSET OrderCmd
    PROVE  LET t == OrderTakenBy(r, phase, order, heard)
           IN  /\ t \in PumpState
               /\ t.phase = phase /\ t.txn = r.txn /\ t.sales = r.sales
               /\ t.ordered = order /\ t.heard = heard /\ t.portions = r.portions
  <1> DEFINE t == OrderTakenBy(r, phase, order, heard)
             v0 == [phase |-> r.phase, txn |-> r.txn, sales |-> r.sales,
                   ordered |-> r.ordered, heard |-> r.heard, portions |-> r.portions]
             v1 == [phase |-> phase, txn |-> r.txn, sales |-> r.sales,
                   ordered |-> r.ordered, heard |-> r.heard, portions |-> r.portions]
             v2 == [phase |-> phase, txn |-> r.txn, sales |-> r.sales,
                   ordered |-> order, heard |-> r.heard, portions |-> r.portions]
             v3 == [phase |-> phase, txn |-> r.txn, sales |-> r.sales,
                   ordered |-> order, heard |-> heard, portions |-> r.portions]
  <1>0. r = v0
    BY PumpStates
  <1>1. [v0 EXCEPT !.phase = phase] = v1
    OBVIOUS
  <1>2. [v1 EXCEPT !.ordered = order] = v2
    OBVIOUS
  <1>3. [v2 EXCEPT !.heard = heard] = v3
    OBVIOUS
  <1>4. t = v3
    BY <1>0, <1>1, <1>2, <1>3, Zenon DEF OrderTakenBy
  <1>5. v3 \in PumpState
    BY PumpStates
  <1> HIDE DEF t
  <1>6. /\ t \in PumpState
        /\ t.phase = phase /\ t.txn = r.txn /\ t.sales = r.sales
        /\ t.ordered = order /\ t.heard = heard /\ t.portions = r.portions
    BY <1>4, <1>5
  <1> QED
    BY <1>6 DEF t

\* A pump that begins anew has no order and has dispensed nothing.
LEMMA IdleState ==
    ASSUME NEW txn \in Nat, NEW sales \in Nat
    PROVE  /\ Idle(txn, sales) \in PumpState
           /\ Idle(txn, sales).phase = "hung" /\ Idle(txn, sales).txn = txn
           /\ Idle(txn, sales).sales = sales /\ Idle(txn, sales).ordered = NoOrder
           /\ Idle(txn, sales).heard = {} /\ Idle(txn, sales).portions = 0
  <1>1. 0 \in 0..MaxPortions
    BY BoundsAssumption
  <1>2. NoOrder \in AllOrders \cup {NoOrder}
    OBVIOUS
  <1>3. {} \in SUBSET OrderCmd
    OBVIOUS
  <1>4. Idle(txn, sales) \in PumpState
    BY <1>1, <1>2, <1>3, PumpStates DEF Idle
  <1> QED
    BY <1>4 DEF Idle

-----------------------------------------------------------------------------
(***************************************************************************)
(* The pumps: what they keep of their orders.                              *)
(***************************************************************************)

RoomFor(order, lang) ==
    CASE lang = "Unipump" -> order.volume < 10000000 /\ order.price < 10000
      [] lang = "Adast"   -> /\ order.volume < 10000000 /\ order.price < 10000
                             /\ order.nozzle = 1
      [] lang = "Shelf"   -> order.volume < 167772160 /\ order.price < 65536

\* A pump numbers its sales one after the other, and what it has heard is its order.
Counts(p, r) ==
    /\ FirstTxn[p] <= r.txn /\ r.sales <= MaxSales[p]
    /\ r.txn + (IF r.phase = "hung" THEN 0 ELSE 1) <= FirstTxn[p] + r.sales

Understands(p, r, lang) ==
    /\ r.ordered \in Orders[p] \cup {NoOrder}
    /\ \A h \in r.heard : IsOf(h, r.ordered, lang)
    /\ r.ordered # NoOrder /\ RoomFor(r.ordered, lang) => \E h \in r.heard : h.type = "WRITE_VOLUME"

PumpInv(p, r, lang) == r \in PumpState /\ Counts(p, r) /\ Understands(p, r, lang)

\* The numbers of the sales.
LEMMA Numbers ==
    ASSUME NEW p, p \in Pumps
    PROVE  /\ FirstTxn[p] \in 1..99 /\ MaxSales[p] \in 0..99 /\ FirstTxn[p] + MaxSales[p] <= 100
           /\ FirstTxn[p] \in Nat /\ MaxSales[p] \in Nat
  <1>1. FirstTxn \in [Pumps -> 1..99] /\ MaxSales \in [Pumps -> 0..99]
    BY SalesAssumption, Zenon
  <1>2. FirstTxn[p] + MaxSales[p] <= 100
    BY SalesAssumption, Zenon
  <1> QED
    BY <1>1, <1>2

\* A pump that moves on with the order it has.
LEMMA PumpGoesOn ==
    ASSUME NEW p, NEW r, NEW t, NEW lang, p \in Pumps, PumpInv(p, r, lang), t \in PumpState,
           t.ordered = r.ordered, t.heard = r.heard, t.txn = r.txn,
           \/ t.sales = r.sales /\ (r.phase # "hung" \/ t.phase = r.phase)
           \/ t.sales = r.sales + 1 /\ r.phase = "hung" /\ r.sales < MaxSales[p]
    PROVE  PumpInv(p, t, lang)
  <1>1. r \in PumpState /\ Counts(p, r) /\ Understands(p, r, lang)
    BY DEF PumpInv
  <1>2. r.txn \in Nat /\ r.sales \in Nat /\ t.sales \in Nat
    BY <1>1, PumpStates
  <1>3. Counts(p, t)
    BY <1>1, <1>2, Numbers DEF Counts
  <1>4. Understands(p, t, lang)
    BY <1>1 DEF Understands
  <1> QED
    BY <1>3, <1>4 DEF PumpInv

\* The nozzle is lifted.
LEMMA PumpLifts ==
    ASSUME NEW p, NEW r, NEW lang, p \in Pumps, PumpInv(p, r, lang), r.phase = "hung",
           r.sales < MaxSales[p]
    PROVE  PumpInv(p, [r EXCEPT !.phase = "lifted", !.sales = @ + 1], lang)
  <1>1. r \in PumpState
    BY DEF PumpInv
  <1> DEFINE t == [r EXCEPT !.phase = "lifted", !.sales = @ + 1]
  <1>2. /\ t \in PumpState /\ t.ordered = r.ordered /\ t.heard = r.heard /\ t.txn = r.txn
        /\ t.sales = r.sales + 1
    BY <1>1, NozzleLifted
  <1> HIDE DEF t
  <1>3. PumpInv(p, t, lang)
    BY <1>2, PumpGoesOn
  <1> QED
    BY <1>3 DEF t

\* A portion is dispensed.
LEMMA PumpDispenses ==
    ASSUME NEW p, NEW r, NEW lang, p \in Pumps, PumpInv(p, r, lang), r.portions < MaxPortions
    PROVE  PumpInv(p, [r EXCEPT !.portions = @ + 1], lang)
  <1>1. r \in PumpState
    BY DEF PumpInv
  <1> DEFINE t == [r EXCEPT !.portions = @ + 1]
  <1>2. /\ t \in PumpState /\ t.ordered = r.ordered /\ t.heard = r.heard /\ t.txn = r.txn
        /\ t.sales = r.sales /\ t.phase = r.phase
    BY <1>1, PortionDispensed
  <1> HIDE DEF t
  <1>3. PumpInv(p, t, lang)
    BY <1>2, PumpGoesOn
  <1> QED
    BY <1>3 DEF t

\* The sale ends.
LEMMA PumpEnds ==
    ASSUME NEW p, NEW r, NEW lang, p \in Pumps, PumpInv(p, r, lang), r.phase = "filling"
    PROVE  PumpInv(p, [r EXCEPT !.phase = "done"], lang)
  <1>1. r \in PumpState
    BY DEF PumpInv
  <1> DEFINE t == [r EXCEPT !.phase = "done"]
  <1>2. /\ t \in PumpState /\ t.ordered = r.ordered /\ t.heard = r.heard /\ t.txn = r.txn
        /\ t.sales = r.sales
    BY <1>1, PhaseChanged
  <1> HIDE DEF t
  <1>3. PumpInv(p, t, lang)
    BY <1>2, PumpGoesOn
  <1> QED
    BY <1>3 DEF t

\* The report of the sale is closed.
LEMMA PumpForgets ==
    ASSUME NEW p, NEW r, NEW lang, p \in Pumps, PumpInv(p, r, lang), r.phase = "done"
    PROVE  PumpInv(p, Idle(r.txn + 1, r.sales), lang)
  <1>1. r \in PumpState /\ Counts(p, r)
    BY DEF PumpInv
  <1> DEFINE t == Idle(r.txn + 1, r.sales)
  <1>2. r.txn \in Nat /\ r.sales \in Nat
    BY <1>1, PumpStates
  <1>3. /\ t \in PumpState /\ t.ordered = NoOrder /\ t.heard = {} /\ t.txn = r.txn + 1
        /\ t.sales = r.sales /\ t.phase = "hung"
    BY <1>2, IdleState, r.txn + 1 \in Nat
  <1> HIDE DEF t
  <1>4. Counts(p, t)
    BY <1>1, <1>2, <1>3, Numbers DEF Counts
  <1>5. Understands(p, t, lang)
    BY <1>3 DEF Understands
  <1>6. PumpInv(p, t, lang)
    BY <1>3, <1>4, <1>5 DEF PumpInv
  <1> QED
    BY <1>6 DEF t

\* A pump that hears of an order what the order asks for.
LEMMA PumpIsOrdered ==
    ASSUME NEW p, NEW r, NEW lang, NEW order, NEW phase, NEW heard, p \in Pumps,
           PumpInv(p, r, lang), r.phase = "lifted", phase \in {"lifted", "filling"},
           order \in Orders[p], \A h \in heard : IsOf(h, order, lang),
           RoomFor(order, lang) => \E h \in heard : h.type = "WRITE_VOLUME"
    PROVE  PumpInv(p, OrderTakenBy(r, phase, order, heard), lang)
  <1>1. r \in PumpState /\ Counts(p, r)
    BY DEF PumpInv
  <1> DEFINE t == OrderTakenBy(r, phase, order, heard)
  <1>2. order \in AllOrders
    BY DEF AllOrders
  <1>3. heard \in SUBSET OrderCmd
    BY DEF IsOf
  <1>4. phase \in {"hung", "lifted", "filling", "done"}
    OBVIOUS
  <1>5. /\ t \in PumpState /\ t.ordered = order /\ t.heard = heard /\ t.txn = r.txn
        /\ t.sales = r.sales /\ t.phase = phase
    BY <1>1, <1>2, <1>3, <1>4, OrderTaken
  <1> HIDE DEF t
  <1>6. Counts(p, t)
    BY <1>1, <1>5 DEF Counts
  <1>7. Understands(p, t, lang)
    BY <1>5 DEF Understands
  <1>8. PumpInv(p, t, lang)
    BY <1>5, <1>6, <1>7 DEF PumpInv
  <1> QED
    BY <1>8 DEF t

\* A pump obeys.
LEMMA PumpObeys ==
    ASSUME NEW p, NEW h, NEW lang, p \in Pumps, PumpInv(p, pump[p], lang)
    PROVE  PumpInv(p, Obeys(p, h), lang)
  <1> DEFINE stops  == h.type = "STOP_COMMAND" /\ pump[p].phase = "filling" /\ pump[p].portions > 0
             closes == h.type = "CLOSE_REPORT" /\ pump[p].phase = "done" /\ h.txn = pump[p].txn
  <1>1. CASE stops
    <2>1. Obeys(p, h) = [pump[p] EXCEPT !.phase = "done"]
      BY <1>1 DEF Obeys
    <2> QED
      BY <1>1, <2>1, PumpEnds
  <1>2. CASE closes
    <2>1. Obeys(p, h) = Idle(pump[p].txn + 1, pump[p].sales)
      BY <1>2 DEF Obeys
    <2> QED
      BY <1>2, <2>1, PumpForgets
  <1>3. CASE ~stops /\ ~closes
    <2>1. Obeys(p, h) = pump[p]
      BY <1>3 DEF Obeys
    <2> QED
      BY <2>1
  <1> QED
    BY <1>1, <1>2, <1>3

-----------------------------------------------------------------------------
PumpsInv ==
    /\ protocol \in Protocols
    /\ pump \in [Pumps -> PumpState]
    /\ \A p \in Pumps : PumpInv(p, pump[p], protocol)

\* One pump of all changes.
LEMMA OnePumpChanges ==
    ASSUME PumpsInv, protocol' = protocol, NEW p \in Pumps, NEW r, PumpInv(p, r, protocol),
           pump' = [pump EXCEPT ![p] = r]
    PROVE  PumpsInv'
  <1>1. r \in PumpState
    BY DEF PumpInv
  <1>2. pump' \in [Pumps -> PumpState]
    BY <1>1 DEF PumpsInv
  <1>3. ASSUME NEW q \in Pumps PROVE PumpInv(q, pump'[q], protocol)
    BY DEF PumpsInv
  <1> QED
    BY <1>2, <1>3 DEF PumpsInv

\* The pumps begin without orders.
LEMMA PumpsStart == Init => PumpsInv
  <1> SUFFICES ASSUME Init PROVE PumpsInv
    OBVIOUS
  <1>1. protocol \in Protocols /\ pump = [p \in Pumps |-> Idle(FirstTxn[p], 0)]
    BY DEF Init
  <1>2. ASSUME NEW p \in Pumps PROVE PumpInv(p, Idle(FirstTxn[p], 0), protocol)
    <2> DEFINE t == Idle(FirstTxn[p], 0)
    <2>1. /\ t \in PumpState /\ t.ordered = NoOrder /\ t.heard = {} /\ t.txn = FirstTxn[p]
          /\ t.sales = 0 /\ t.phase = "hung"
      BY IdleState, Numbers
    <2> HIDE DEF t
    <2>2. Counts(p, t)
      BY <2>1, Numbers DEF Counts
    <2>3. Understands(p, t, protocol)
      BY <2>1 DEF Understands
    <2>4. PumpInv(p, t, protocol)
      BY <2>1, <2>2, <2>3 DEF PumpInv
    <2> QED
      BY <2>4 DEF t
  <1>3. pump \in [Pumps -> PumpState]
    BY <1>1, <1>2 DEF PumpInv
  <1> QED
    BY <1>1, <1>2, <1>3 DEF PumpsInv

\* A request without a history of its own leaves every pump its order, or none.
LEMMA BroadcastKeepsPumps ==
    ASSUME PumpsInv, protocol' = protocol, NEW packet, NEW counter, Broadcast(packet, counter)
    PROVE  PumpsInv'
  <1>1. CASE UNCHANGED <<pump, wire>>
    BY <1>1 DEF PumpsInv
  <1>2. ASSUME NEW p \in Pumps, NEW h, pump' = [pump EXCEPT ![p] = Obeys(p, h)]
        PROVE  PumpsInv'
    <2>1. PumpInv(p, Obeys(p, h), protocol)
      BY PumpObeys DEF PumpsInv
    <2> QED
      BY <1>2, <2>1, OnePumpChanges
  <1> QED
    BY <1>1, <1>2 DEF Broadcast

\* The pump that is ordered has understood the order, or heard nothing of it.
LEMMA OrderKeepsPumps ==
    ASSUME PumpsInv, NEW p \in Pumps, NEW order \in Orders[p], Order(p, order)
    PROVE  PumpsInv'
  <1> DEFINE counter == Counted(Addr[p], packetIndexCounter)
             told == Heard(p, PreparePacket(SetPriceOf(order), Addr[p], packetIndexCounter))
             run  == Heard(p, PreparePacket(RunOf(order), Addr[p], counter))
             phase == IF run = {} THEN pump[p].phase ELSE "filling"
             t == OrderTakenBy(pump[p], phase, order, told \cup run)
  <1>1. pump[p].phase = "lifted" /\ protocol' = protocol
    BY DEF Order
  <1>0. pump' = pump \/ pump' = [pump EXCEPT ![p] = t]
    BY Zenon DEF Order, SetPriceOf, RunOf, Takes, OrderTakenBy
  <1>2. CASE pump' = pump
    BY <1>1, <1>2 DEF PumpsInv
  <1>3. CASE pump' = [pump EXCEPT ![p] = t]
    <2>1. protocol \in Protocols /\ PumpInv(p, pump[p], protocol)
      BY DEF PumpsInv
    <2>2. /\ \A h \in told : IsOf(h, order, protocol)
          /\ \A h \in run : IsOf(h, order, protocol)
          /\ Fits(order) => \E h \in run : h.type = "WRITE_VOLUME"
      BY <2>1, OrderHeard
    <2>3. Fits(order) <=> RoomFor(order, protocol)
      BY DEF Fits, RoomFor
    <2>4. phase \in {"lifted", "filling"}
      BY <1>1
    <2> HIDE DEF told, run, phase
    <2> DEFINE heard == told \cup run
    <2>5. /\ \A h \in heard : IsOf(h, order, protocol)
          /\ RoomFor(order, protocol) => \E h \in heard : h.type = "WRITE_VOLUME"
      BY <2>2, <2>3
    <2>6. t = OrderTakenBy(pump[p], phase, order, heard)
      OBVIOUS
    <2> HIDE DEF heard, t
    <2>7. PumpInv(p, t, protocol)
      BY <1>1, <2>1, <2>4, <2>5, <2>6, PumpIsOrdered
    <2> QED
      BY <1>1, <1>3, <2>7, OnePumpChanges
  <1> QED
    BY <1>0, <1>2, <1>3

\* What the pumps keep of their orders holds after every step.
LEMMA PumpsStep == PumpsInv /\ [Next]_vars => PumpsInv'
  <1> SUFFICES ASSUME PumpsInv, [Next]_vars PROVE PumpsInv'
    OBVIOUS
  <1>1. ASSUME NEW p \in Pumps,
               NEW type \in {"STATUS_REQUEST", "GET_TOTAL", "STOP_COMMAND", "CLOSE_REPORT"},
               Ask(p, type)
        PROVE  PumpsInv'
    BY <1>1, BroadcastKeepsPumps DEF Ask
  <1>2. ASSUME NEW p \in Pumps, NEW order \in Orders[p], Order(p, order) PROVE PumpsInv'
    BY <1>2, OrderKeepsPumps
  <1>3. CASE Read
    BY <1>3 DEF Read, PumpsInv
  <1>4. CASE Restart
    BY <1>4 DEF Restart, PumpsInv
  <1>5. ASSUME NEW p \in Pumps, LiftNozzle(p) PROVE PumpsInv'
    <2>1. PumpInv(p, [pump[p] EXCEPT !.phase = "lifted", !.sales = @ + 1], protocol)
      BY <1>5, PumpLifts DEF LiftNozzle, PumpsInv
    <2> QED
      BY <1>5, <2>1, OnePumpChanges DEF LiftNozzle, PumpMoves
  <1>6. ASSUME NEW p \in Pumps, Dispense(p) PROVE PumpsInv'
    <2>1. PumpInv(p, [pump[p] EXCEPT !.portions = @ + 1], protocol)
      BY <1>6, PumpDispenses DEF Dispense, PumpsInv
    <2> QED
      BY <1>6, <2>1, OnePumpChanges DEF Dispense, PumpMoves
  <1>7. ASSUME NEW p \in Pumps, HangUp(p) PROVE PumpsInv'
    <2>1. PumpInv(p, [pump[p] EXCEPT !.phase = "done"], protocol)
      BY <1>7, PumpEnds DEF HangUp, PumpsInv
    <2> QED
      BY <1>7, <2>1, OnePumpChanges DEF HangUp, PumpMoves
  <1>8. CASE UNCHANGED vars
    BY <1>8 DEF vars, PumpsInv
  <1> QED
    BY <1>1, <1>2, <1>3, <1>4, <1>5, <1>6, <1>7, <1>8 DEF Next

\* What the pumps keep of their orders is what OrderUnderstood says.
LEMMA PumpsImply == PumpsInv => OrderUnderstood
  <1> SUFFICES ASSUME PumpsInv, NEW p \in Pumps
               PROVE  LET order == pump[p].ordered
                      IN  /\ \A h \in pump[p].heard :
                                /\ h.price = order.price
                                /\ h.type = "WRITE_VOLUME" =>
                                      /\ h.volume = 10 * (order.volume \div 10)
                                      /\ protocol # "Shelf" => h.nozzle = order.nozzle
                          /\ order # NoOrder /\ Fits(order) =>
                                \E h \in pump[p].heard : h.type = "WRITE_VOLUME"
    BY DEF OrderUnderstood
  <1>1. Understands(p, pump[p], protocol)
    BY DEF PumpsInv, PumpInv
  <1>2. Fits(pump[p].ordered) <=> RoomFor(pump[p].ordered, protocol)
    BY DEF Fits, RoomFor
  <1> QED
    BY <1>1, <1>2 DEF Understands, IsOf

\* What a pump makes of an order is the order, for every number of pumps, every protocol
\* and every order.
THEOREM Understood == Spec => []OrderUnderstood
  <1>1. Init => PumpsInv
    BY PumpsStart
  <1>2. PumpsInv /\ [Next]_vars => PumpsInv'
    BY PumpsStep
  <1>3. PumpsInv => OrderUnderstood
    BY PumpsImply
  <1> QED
    BY <1>1, <1>2, <1>3, PTL DEF Spec

\* What a pump hears of the other requests is what they are for, and the end of a report
\* is heard by the pump it is for alone.
LEMMA UnipumpHearsOthers ==
    ASSUME NEW packet, NEW b, NEW code, Unipump!CheckCheckSum(packet),
           Unipump!At(packet, 3) = code
    PROVE  /\ code = 67 /\ Unipump!AddrOfPacket(packet) = b =>
                 Unipump!Heard(packet, b) =
                    {[type |-> "CLOSE_REPORT",
                      txn |-> Unipump!FromDigits(Unipump!Slice(packet, 4, 2))]}
           /\ Unipump!AddrOfPacket(packet) # b => Unipump!Heard(packet, b) = {}
           /\ code = 83 => Unipump!Heard(packet, b) \subseteq {[type |-> "STATUS_REQUEST"]}
           /\ code = 72 => Unipump!Heard(packet, b) \subseteq {[type |-> "STOP_COMMAND"]}
           /\ code = 84 => Unipump!Heard(packet, b) \subseteq
                              {[type |-> "GET_TOTAL", nozzle |-> Unipump!At(packet, 4) - 48]}
  <1>1. ASSUME code = 67, Unipump!AddrOfPacket(packet) = b
        PROVE  Unipump!Heard(packet, b) =
                  {[type |-> "CLOSE_REPORT",
                    txn |-> Unipump!FromDigits(Unipump!Slice(packet, 4, 2))]}
    BY <1>1, SMT DEF Unipump!Heard
  <1>2. ASSUME Unipump!AddrOfPacket(packet) # b PROVE Unipump!Heard(packet, b) = {}
    BY <1>2, SMT DEF Unipump!Heard
  <1>3. ASSUME code = 83
        PROVE  Unipump!Heard(packet, b) \subseteq {[type |-> "STATUS_REQUEST"]}
    BY <1>2, <1>3, SMT DEF Unipump!Heard
  <1>4. ASSUME code = 72
        PROVE  Unipump!Heard(packet, b) \subseteq {[type |-> "STOP_COMMAND"]}
    BY <1>2, <1>4, SMT DEF Unipump!Heard
  <1>5. ASSUME code = 84
        PROVE  Unipump!Heard(packet, b) \subseteq
                  {[type |-> "GET_TOTAL", nozzle |-> Unipump!At(packet, 4) - 48]}
    BY <1>2, <1>5, SMT DEF Unipump!Heard
  <1> QED
    BY <1>1, <1>2, <1>3, <1>4, <1>5

\* Of a CLOSE_REPORT a pump hears the number that was kept, and no other pump hears it.
LEMMA UnipumpCloseHeard ==
    ASSUME NEW a, NEW kept, NEW n, a \in Int, n \in Nat, n < 2080, kept[a] = Digits(n, 2),
           NEW b, b \in Int
    PROVE  Unipump!Heard(Unipump!CloseCommand(a, kept), b) =
               IF b = a THEN {[type |-> "CLOSE_REPORT", txn |-> n]} ELSE {}
  <1> DEFINE d == Digits(n, 2)
             start == <<a + 48, 67>>
             packet == Unipump!Frame(start \o d)
  <1>1. Unipump!CloseCommand(a, kept) = packet
    BY DEF Unipump!CloseCommand
  <1>2. IsSequence(d) /\ Size(d) = 2
    BY DigitsIsSequence, 2 \in 2..10
  <1>3. IsSequence(start) /\ Size(start) = 2
    BY Tuples
  <1>4. FromDigits(d) = n
    BY DigitsReadBack, SMT
  <1>5. packet = Unipump!Frame(start \o d)
    OBVIOUS
  <1> HIDE DEF d, start, packet
  <1>6. /\ Has(packet, 2, start) /\ Has(packet, 2 + Size(start), d)
        /\ Unipump!CheckCheckSum(packet)
    BY <1>2, <1>3, <1>5, UnipumpTwo
  <1>7. At(packet, 2) = a + 48 /\ At(packet, 3) = 67
    <2>1. Has(packet, 2, <<a + 48, 67>>)
      BY <1>6 DEF start
    <2> QED
      BY <2>1, TwoAt, 2 \in Nat, 2 + 1 = 3
  <1>8. Slice(packet, 4, 2) = d
    <2>1. Has(packet, 4, d)
      BY <1>3, <1>6, 2 + 2 = 4
    <2> QED
      BY <1>2, <2>1, PartSliced, 4 \in Nat
  <1>9. /\ Unipump!At(packet, 3) = 67 /\ Unipump!AddrOfPacket(packet) = a
        /\ Unipump!FromDigits(Unipump!Slice(packet, 4, 2)) = n
    BY <1>4, <1>7, <1>8, UnipumpNumbers DEF Unipump!AddrOfPacket
  <1>10. CASE b = a
    <2>1. Unipump!Heard(packet, b) =
             {[type |-> "CLOSE_REPORT",
               txn |-> Unipump!FromDigits(Unipump!Slice(packet, 4, 2))]}
      BY <1>6, <1>9, <1>10, UnipumpHearsOthers
    <2>2. Unipump!Heard(packet, b) = {[type |-> "CLOSE_REPORT", txn |-> n]}
      <3>1. Unipump!FromDigits(Unipump!Slice(packet, 4, 2)) = n
        BY <1>9
      <3> QED
        BY <2>1, <3>1
    <2> QED
      BY <1>1, <1>10, <2>2
  <1>11. CASE b # a
    <2>1. Unipump!Heard(packet, b) = {}
      BY <1>6, <1>9, <1>11, UnipumpHearsOthers
    <2> QED
      BY <1>1, <1>11, <2>1
  <1> QED
    BY <1>10, <1>11

\* Nobody hears the end of a report in another request.
LEMMA UnipumpAskHeard ==
    ASSUME NEW a, NEW cmd, NEW b, a \in Int, b \in Int
    PROVE  /\ \A h \in Unipump!Heard(Unipump!StatusRequest(a), b) : h.type = "STATUS_REQUEST"
           /\ \A h \in Unipump!Heard(Unipump!StopCommand(a), b) : h.type = "STOP_COMMAND"
           /\ \A h \in Unipump!Heard(Unipump!TotalCommand(cmd, a), b) : h.type = "GET_TOTAL"
  <1>1. \A h \in Unipump!Heard(Unipump!StatusRequest(a), b) : h.type = "STATUS_REQUEST"
    <2> DEFINE c == <<a + 48, 83>>
               packet == Unipump!StatusRequest(a)
    <2>1. packet = Unipump!Frame(c)
      BY DEF Unipump!StatusRequest
    <2>2. IsSequence(c)
      BY Tuples
    <2> HIDE DEF c, packet
    <2>3. Has(packet, 2, c) /\ Unipump!CheckCheckSum(packet)
      BY <2>1, <2>2, UnipumpFramed
    <2>4. Has(packet, 2, <<a + 48, 83>>)
      BY <2>3 DEF c
    <2>5. At(packet, 3) = 83
      BY <2>4, TwoAt, 2 \in Nat, 2 + 1 = 3
    <2>6. Unipump!At(packet, 3) = 83
      BY <2>5, UnipumpNumbers
    <2>7. Unipump!Heard(packet, b) \subseteq {[type |-> "STATUS_REQUEST"]}
      BY <2>3, <2>6, UnipumpHearsOthers
    <2> QED
      BY <2>7 DEF packet
  <1>2. \A h \in Unipump!Heard(Unipump!StopCommand(a), b) : h.type = "STOP_COMMAND"
    <2> DEFINE c == <<a + 48, 72>>
               packet == Unipump!StopCommand(a)
    <2>1. packet = Unipump!Frame(c)
      BY DEF Unipump!StopCommand
    <2>2. IsSequence(c)
      BY Tuples
    <2> HIDE DEF c, packet
    <2>3. Has(packet, 2, c) /\ Unipump!CheckCheckSum(packet)
      BY <2>1, <2>2, UnipumpFramed
    <2>4. Has(packet, 2, <<a + 48, 72>>)
      BY <2>3 DEF c
    <2>5. At(packet, 3) = 72
      BY <2>4, TwoAt, 2 \in Nat, 2 + 1 = 3
    <2>6. Unipump!At(packet, 3) = 72
      BY <2>5, UnipumpNumbers
    <2>7. Unipump!Heard(packet, b) \subseteq {[type |-> "STOP_COMMAND"]}
      BY <2>3, <2>6, UnipumpHearsOthers
    <2> QED
      BY <2>7 DEF packet
  <1>3. \A h \in Unipump!Heard(Unipump!TotalCommand(cmd, a), b) : h.type = "GET_TOTAL"
    <2> DEFINE c == <<a + 48, 84, 48 + cmd.nozzle>>
               packet == Unipump!TotalCommand(cmd, a)
    <2>1. packet = Unipump!Frame(c)
      BY DEF Unipump!TotalCommand
    <2>2. IsSequence(c)
      BY Tuples
    <2> HIDE DEF c, packet
    <2>3. Has(packet, 2, c) /\ Unipump!CheckCheckSum(packet)
      BY <2>1, <2>2, UnipumpFramed
    <2>4. Has(packet, 2, <<a + 48, 84, 48 + cmd.nozzle>>)
      BY <2>3 DEF c
    <2>5. At(packet, 3) = 84
      BY <2>4, ThreeAt, 2 \in Nat, 2 + 1 = 3
    <2>6. Unipump!At(packet, 3) = 84
      BY <2>5, UnipumpNumbers
    <2>7. Unipump!Heard(packet, b) \subseteq
             {[type |-> "GET_TOTAL", nozzle |-> Unipump!At(packet, 4) - 48]}
      BY <2>3, <2>6, UnipumpHearsOthers
    <2> QED
      BY <2>7 DEF packet
  <1> QED
    BY <1>1, <1>2, <1>3

-----------------------------------------------------------------------------
(***************************************************************************)
(* Unipump: the replies.                                                   *)
(***************************************************************************)

\* What a pump may say, with the numbers there are digits for.
Sensible(type, nozzle, volume, price, txn, amount) ==
    /\ type \in Types /\ nozzle \in 0..6
    /\ volume \in Nat /\ volume <= ShownVolume /\ volume % 10 = 0
    /\ price \in Nat /\ price <= LargestPrice
    /\ txn \in Nat /\ txn <= 100
    /\ amount \in Nat /\ (price < 10000 => amount <= ShownAmount)
    /\ IF type = "HANGED_FREE" THEN nozzle = 0 ELSE nozzle >= 1
    /\ type \notin SaleTypes => price = 0 /\ txn = 0 /\ amount = 0
    /\ type \in {"HANGED_FREE", "REMOVED_WAITING"} => volume = 0

\* The numbers of a sale, and what is in a reply.
UnipumpSale(nozzle, volume, txn, amount) ==
    Digits(txn, 2) \o <<nozzle + 48>> \o Digits(amount, 6) \o Digits(volume \div 10, 6)

UnipumpContent(a, type, nozzle, volume, price, txn, amount) ==
    CASE type = "HANGED_FREE"     -> <<a + 48, 83>> \o <<48, 49>>
      [] type = "REMOVED_WAITING" -> <<a + 48, 83>> \o <<nozzle + 48, 51>>
      [] type = "FUEL_SUPPLY"     -> <<a + 48, 65>> \o UnipumpSale(nozzle, volume, txn, amount)
      [] type = "SUPPLY_DONE"     ->
            <<a + 48, 84>> \o UnipumpSale(nozzle, volume, txn, amount) \o Digits(price, 4)
      [] type = "TOTAL_RESPONSE"  ->
            <<a + 48, 67>> \o <<48, 48, nozzle + 48>> \o LittleEndian(volume, 4)
            \o Repeat(0, 8) \o LittleEndian(amount, 4) \o Repeat(0, 4)

\* The packet of a reply is its content in the frame.
LEMMA UnipumpSaysContent ==
    ASSUME NEW m, NEW a, NEW type, NEW nozzle, NEW volume, NEW price, NEW txn, NEW amount,
           Sensible(type, nozzle, volume, price, txn, amount), m.type = type, m.nozzle = nozzle,
           m.volume = volume, m.price = price, m.txn = txn, m.amount = amount
    PROVE  Unipump!Says(m, a) =
              Unipump!Frame(UnipumpContent(a, type, nozzle, volume, price, txn, amount))
  <1>0. \/ type = "HANGED_FREE" \/ type = "REMOVED_WAITING" \/ type = "FUEL_SUPPLY"
        \/ type = "SUPPLY_DONE" \/ type = "TOTAL_RESPONSE"
    BY DEF Sensible, Types
  <1>1. Unipump!Digits(txn, 2) = Digits(txn, 2) /\ Unipump!Digits(amount, 6) = Digits(amount, 6)
        /\ Unipump!Digits(volume \div 10, 6) = Digits(volume \div 10, 6)
        /\ Unipump!Digits(price, 4) = Digits(price, 4)
        /\ Unipump!LittleEndian(volume, 4) = LittleEndian(volume, 4)
        /\ Unipump!LittleEndian(amount, 4) = LittleEndian(amount, 4)
        /\ Unipump!Repeat(0, 8) = Repeat(0, 8) /\ Unipump!Repeat(0, 4) = Repeat(0, 4)
    BY UnipumpNumbers
  <1>2. CASE type = "HANGED_FREE"
    BY <1>1, <1>2 DEF Unipump!Says, UnipumpContent
  <1>3. CASE type = "REMOVED_WAITING"
    BY <1>1, <1>3 DEF Unipump!Says, UnipumpContent
  <1>4. CASE type = "FUEL_SUPPLY"
    BY <1>1, <1>4 DEF Unipump!Says, UnipumpContent, UnipumpSale
  <1>5. CASE type = "SUPPLY_DONE"
    BY <1>1, <1>5 DEF Unipump!Says, UnipumpContent, UnipumpSale
  <1>6. CASE type = "TOTAL_RESPONSE"
    BY <1>1, <1>6 DEF Unipump!Says, UnipumpContent
  <1> QED
    BY <1>0, <1>2, <1>3, <1>4, <1>5, <1>6

\* The parts of a sale, wherever it stands in a packet.
LEMMA UnipumpSaleParts ==
    ASSUME NEW nozzle, NEW volume, NEW txn, NEW amount, NEW sale,
           sale = UnipumpSale(nozzle, volume, txn, amount)
    PROVE  /\ IsSequence(sale) /\ Size(sale) = 15
           /\ Has(sale, 0, Digits(txn, 2)) /\ Has(sale, 2, <<nozzle + 48>>)
           /\ Has(sale, 3, Digits(amount, 6)) /\ Has(sale, 9, Digits(volume \div 10, 6))
  <1> DEFINE t == Digits(txn, 2)
             n == <<nozzle + 48>>
             s == Digits(amount, 6)
             v == Digits(volume \div 10, 6)
  <1>1. IsSequence(t) /\ Size(t) = 2
    BY DigitsIsSequence, 2 \in 2..10
  <1>2. IsSequence(s) /\ Size(s) = 6 /\ IsSequence(v) /\ Size(v) = 6
    BY DigitsIsSequence, 6 \in 2..10
  <1>3. IsSequence(n) /\ Size(n) = 1
    BY Tuples
  <1>4. sale = t \o n \o s \o v
    BY DEF UnipumpSale
  <1> HIDE DEF t, n, s, v
  <1>5. Of4(sale, t, n, s, v)
    BY <1>1, <1>2, <1>3, <1>4, FourParts
  <1>6. /\ IsSequence(sale) /\ Size(sale) = 15
        /\ Has(sale, 0, t) /\ Has(sale, 2, n) /\ Has(sale, 3, s) /\ Has(sale, 9, v)
    BY <1>1, <1>2, <1>3, <1>5, 2 + 1 = 3, 3 + 6 = 9, 9 + 6 = 15 DEF Of4
  <1> QED
    BY <1>6 DEF t, n, s, v

\* What parseResponse makes of a packet, by the byte that says of what kind it is.
LEMMA UnipumpParsesStatus ==
    ASSUME NEW packet, NEW x, NEW id, NEW a, NEW address, Unipump!At(packet, 3) = 83,
           Unipump!AddrOfPacket(packet) = a, address = IF a = x THEN id ELSE 0
    PROVE  Unipump!ParseResponse(packet, x, id) =
              Unipump!Status(address, Unipump!At(packet, 4) - 48,
                             Unipump!StatusType(Unipump!At(packet, 5) - 48))
  BY SMT DEF Unipump!ParseResponse

\* Of a running sale the master reads the volume and the amount.
LEMMA UnipumpParsesSupply ==
    ASSUME NEW packet, NEW x, NEW id, NEW a, NEW address, Unipump!At(packet, 3) = 65,
           Unipump!AddrOfPacket(packet) = a, address = IF a = x THEN id ELSE 0
    PROVE  Unipump!ParseResponse(packet, x, id) =
              Unipump!Amounts(packet, address, "FUEL_SUPPLY", 0)
  BY SMT DEF Unipump!ParseResponse

\* Of an ended sale it reads the price as well.
LEMMA UnipumpParsesDone ==
    ASSUME NEW packet, NEW x, NEW id, NEW a, NEW address, Unipump!At(packet, 3) = 84,
           Unipump!AddrOfPacket(packet) = a, address = IF a = x THEN id ELSE 0
    PROVE  Unipump!ParseResponse(packet, x, id) =
              Unipump!Amounts(packet, address, "SUPPLY_DONE",
                              Unipump!FromDigits(Unipump!Slice(packet, 19, 4)))
  BY SMT DEF Unipump!ParseResponse

\* Of totals it reads the nozzle, and two numbers of four bytes.
LEMMA UnipumpTotalsCase ==
    ASSUME NEW packet, NEW x, NEW id, Unipump!At(packet, 3) = 67
    PROVE  Unipump!ParseResponse(packet, x, id) =
           [Unipump!Status(id, Unipump!At(packet, 6) - 48, "TOTAL_RESPONSE")
              EXCEPT !.volume = Unipump!FromLittleEndian(Unipump!Slice(packet, 7, 4)),
                     !.amount = Unipump!FromLittleEndian(Unipump!Slice(packet, 19, 4))]
  <1> DEFINE r == [Unipump!Status(id, Unipump!At(packet, 6) - 48, "TOTAL_RESPONSE")
              EXCEPT !.volume = Unipump!FromLittleEndian(Unipump!Slice(packet, 7, 4)),
                     !.amount = Unipump!FromLittleEndian(Unipump!Slice(packet, 19, 4))]
  <1>1. Unipump!ParseResponse(packet, x, id) = r
    BY SMT DEF Unipump!ParseResponse
  <1> QED
    BY <1>1

\* The first is the volume.
LEMMA UnipumpParsesTotals ==
    ASSUME NEW packet, NEW x, NEW id, NEW n, NEW v, NEW s, Unipump!At(packet, 3) = 67,
           Unipump!At(packet, 6) - 48 = n,
           Unipump!FromLittleEndian(Unipump!Slice(packet, 7, 4)) = v,
           Unipump!FromLittleEndian(Unipump!Slice(packet, 19, 4)) = s
    PROVE  Unipump!ParseResponse(packet, x, id) =
              [id |-> id, nozzle |-> n, type |-> "TOTAL_RESPONSE", volume |-> v,
               price |-> 0, txn |-> 0, amount |-> s]
  <1> DEFINE r == Unipump!Status(id, n, "TOTAL_RESPONSE")
             v0 == [id |-> id, nozzle |-> n, type |-> "TOTAL_RESPONSE", volume |-> 0,
                    price |-> 0, txn |-> 0, amount |-> 0]
             v1 == [id |-> id, nozzle |-> n, type |-> "TOTAL_RESPONSE", volume |-> v,
                    price |-> 0, txn |-> 0, amount |-> 0]
             v2 == [id |-> id, nozzle |-> n, type |-> "TOTAL_RESPONSE", volume |-> v,
                    price |-> 0, txn |-> 0, amount |-> s]
  <1>1. Unipump!ParseResponse(packet, x, id) =
           [Unipump!Status(id, Unipump!At(packet, 6) - 48, "TOTAL_RESPONSE")
              EXCEPT !.volume = Unipump!FromLittleEndian(Unipump!Slice(packet, 7, 4)),
                     !.amount = Unipump!FromLittleEndian(Unipump!Slice(packet, 19, 4))]
    BY UnipumpTotalsCase, ZenonT(60)
  <1>6. Unipump!ParseResponse(packet, x, id) = [r EXCEPT !.volume = v, !.amount = s]
    BY <1>1, Zenon
  <1>2. r = v0
    BY DEF Unipump!Status
  <1>3. [v0 EXCEPT !.volume = v] = v1
    OBVIOUS
  <1>4. [v1 EXCEPT !.amount = s] = v2
    OBVIOUS
  <1> HIDE DEF r, v0, v1, v2
  <1>5. Unipump!ParseResponse(packet, x, id) = v2
    BY <1>2, <1>3, <1>4, <1>6, Zenon
  <1> QED
    BY <1>5 DEF v2

\* A reply, even one that is spoilt outside of its content, read.
UnipumpRead(a, x, id, type, nozzle, volume, price, txn, amount) ==
    [id     |-> IF type = "TOTAL_RESPONSE" \/ a = x THEN id ELSE 0,
     nozzle |-> nozzle,
     type   |-> type,
     volume |-> volume,
     price  |-> IF type = "SUPPLY_DONE" THEN price ELSE 0,
     txn    |-> txn,
     amount |-> amount]

\* A packet that has the two bytes of an address and a code, and then the rest.
LEMMA UnipumpHead ==
    ASSUME NEW packet, NEW a, NEW code, NEW rest, NEW c, NEW start, a \in Int, Size(packet) \in Nat,
           IsSequence(rest), start = <<a + 48, code>>, c = start \o rest, Has(packet, 2, c)
    PROVE  /\ Has(packet, 4, rest) /\ Unipump!AddrOfPacket(packet) = a
           /\ Unipump!At(packet, 3) = code
  <1>1. IsSequence(start) /\ Size(start) = 2
    BY Tuples
  <1>2. Of2(c, start, rest)
    BY <1>1, TwoParts
  <1>3. Size(c) \in Nat /\ Size(rest) \in Nat
    BY <1>2, SequencesHaveLengths DEF Of2
  <1>4. Has(packet, 2 + 0, start) /\ Has(packet, 2 + 2, rest)
    BY <1>1, <1>2, <1>3, PartOfPart, 0 \in Nat, 2 \in Nat DEF Of2
  <1>5. Has(packet, 2, <<a + 48, code>>)
    BY <1>4, 2 + 0 = 2
  <1>6. At(packet, 2) = a + 48 /\ At(packet, 3) = code
    BY <1>5, TwoAt, 2 \in Nat, 2 + 1 = 3
  <1> QED
    BY <1>4, <1>6, UnipumpNumbers, 2 + 2 = 4 DEF Unipump!AddrOfPacket

\* The states of the nozzle.
LEMMA UnipumpStatusRead ==
    ASSUME NEW a, NEW packet, NEW x, NEW id, NEW type, NEW nozzle, a \in Int,
           Size(packet) \in Nat, nozzle \in Int,
           \/ type = "HANGED_FREE" /\ nozzle = 0
           \/ type = "REMOVED_WAITING",
           Has(packet, 2, UnipumpContent(a, type, nozzle, 0, 0, 0, 0))
    PROVE  /\ Unipump!AddrOfPacket(packet) = a /\ Unipump!At(packet, 3) = 83
           /\ Unipump!ParseResponse(packet, x, id) =
                 Unipump!Status(IF a = x THEN id ELSE 0, nozzle, type)
  <1> DEFINE start == <<a + 48, 83>>
             k == IF type = "HANGED_FREE" THEN 49 ELSE 51
             rest == <<nozzle + 48, k>>
             c == UnipumpContent(a, type, nozzle, 0, 0, 0, 0)
  <1>1. c = start \o rest
    BY SMTT(30) DEF UnipumpContent
  <1>2. IsSequence(rest)
    BY Tuples
  <1>3. start = <<a + 48, 83>> /\ Has(packet, 2, c)
    OBVIOUS
  <1> HIDE DEF start, c, rest, k
  <1>4. /\ Has(packet, 4, rest) /\ Unipump!AddrOfPacket(packet) = a
        /\ Unipump!At(packet, 3) = 83
    BY <1>1, <1>2, <1>3, UnipumpHead
  <1>5. Has(packet, 4, <<nozzle + 48, k>>)
    BY <1>4 DEF rest
  <1>6. At(packet, 4) = nozzle + 48 /\ At(packet, 5) = k
    BY <1>5, TwoAt, 4 \in Nat, 4 + 1 = 5
  <1>7. Unipump!At(packet, 4) - 48 = nozzle /\ Unipump!At(packet, 5) - 48 = k - 48
    BY <1>6, UnipumpNumbers
  <1>8. Unipump!StatusType(k - 48) = type
    BY SMT DEF Unipump!StatusType, k
  <1> QED
    BY <1>4, <1>7, <1>8, UnipumpParsesStatus

\* Totals: the volume that was sold.
LEMMA UnipumpTotalsRead ==
    ASSUME NEW a, NEW packet, NEW x, NEW id, NEW nozzle, NEW volume, NEW price, NEW txn, NEW amount,
           a \in Int, Size(packet) \in Nat, nozzle \in Int, volume \in Nat, volume <= ShownVolume,
           amount = 0,
           Has(packet, 2, UnipumpContent(a, "TOTAL_RESPONSE", nozzle, volume, price, txn, amount))
    PROVE  /\ Unipump!AddrOfPacket(packet) = a /\ Unipump!At(packet, 3) = 67
           /\ Unipump!ParseResponse(packet, x, id) =
                 [id |-> id, nozzle |-> nozzle, type |-> "TOTAL_RESPONSE", volume |-> volume,
                  price |-> 0, txn |-> 0, amount |-> amount]
  <1> DEFINE start == <<a + 48, 67>>
             n == <<48, 48, nozzle + 48>>
             v == LittleEndian(volume, 4)
             z == Repeat(0, 8)
             s == LittleEndian(amount, 4)
             y == Repeat(0, 4)
             f == start \o n \o v
             g == f \o z \o s
             c == UnipumpContent(a, "TOTAL_RESPONSE", nozzle, volume, price, txn, amount)
  <1>0. c = start \o n \o v \o z \o s \o y
    BY DEF UnipumpContent
  <1>1. IsSequence(start) /\ Size(start) = 2 /\ IsSequence(n) /\ Size(n) = 3
    BY Tuples
  <1>2. IsSequence(v) /\ Size(v) = 4 /\ IsSequence(s) /\ Size(s) = 4
    BY LittleEndianIsSequence, 4 \in 2..4
  <1>3. IsSequence(z) /\ Size(z) = 8 /\ IsSequence(y) /\ Size(y) = 4
    BY RepeatIsSequence, 4 \in Nat, 8 \in Nat
  <1>4. FromLittleEndian(v) = volume /\ FromLittleEndian(s) = amount
    BY BytesReadBack, SMT DEF ShownVolume
  <1>5. c = g \o y /\ g = f \o z \o s /\ f = start \o n \o v /\ Has(packet, 2, c)
    BY <1>0
  <1>6. n = <<48, 48, nozzle + 48>> /\ start = <<a + 48, 67>>
    OBVIOUS
  <1> HIDE DEF start, n, v, z, s, y, f, g, c
  <1>7. Of3(f, start, n, v)
    BY <1>1, <1>2, <1>5, ThreeParts
  <1>8. IsSequence(f) /\ Size(f) = 9 /\ Has(f, 0, start) /\ Has(f, 2, n) /\ Has(f, 5, v)
    BY <1>1, <1>2, <1>7, 2 + 3 = 5, 5 + 4 = 9 DEF Of3
  <1>9. Of3(g, f, z, s)
    BY <1>2, <1>3, <1>5, <1>8, ThreeParts
  <1>10. IsSequence(g) /\ Size(g) = 21 /\ Has(g, 0, f) /\ Has(g, 17, s)
    BY <1>2, <1>3, <1>8, <1>9, 9 + 8 = 17, 17 + 4 = 21 DEF Of3
  <1>11. Of2(c, g, y)
    BY <1>3, <1>5, <1>10, TwoParts
  <1>12. Size(c) = 25 /\ Has(c, 0, g)
    BY <1>3, <1>10, <1>11, 21 + 4 = 25 DEF Of2
  <1>13. Has(packet, 2 + 0, g)
    BY <1>5, <1>10, <1>12, PartOfPart, 0 \in Nat, 2 \in Nat, 21 \in Nat, 25 \in Nat
  <1>14. Has(packet, 2, g)
    BY <1>13, 2 + 0 = 2
  <1>15. Has(packet, 2 + 0, f) /\ Has(packet, 2 + 17, s)
    BY <1>2, <1>8, <1>10, <1>14, PartOfPart, 0 \in Nat, 2 \in Nat, 17 \in Nat, 4 \in Nat,
       9 \in Nat, 21 \in Nat
  <1>16. Has(packet, 2, f) /\ Has(packet, 19, s)
    BY <1>15, 2 + 0 = 2, 2 + 17 = 19
  <1>17. Has(packet, 2 + 0, start) /\ Has(packet, 2 + 2, n) /\ Has(packet, 2 + 5, v)
    BY <1>1, <1>2, <1>8, <1>16, PartOfPart, 0 \in Nat, 2 \in Nat, 3 \in Nat, 4 \in Nat, 5 \in Nat,
       9 \in Nat
  <1>18. /\ Has(packet, 2, <<a + 48, 67>>) /\ Has(packet, 4, <<48, 48, nozzle + 48>>)
         /\ Has(packet, 7, v)
    BY <1>6, <1>17, 2 + 0 = 2, 2 + 2 = 4, 2 + 5 = 7
  <1>19. At(packet, 2) = a + 48 /\ At(packet, 3) = 67
    BY <1>18, TwoAt, 2 \in Nat, 2 + 1 = 3
  <1>20. At(packet, 6) = nozzle + 48
    BY <1>18, ThreeAt, 4 \in Nat, 4 + 2 = 6
  <1>21. Slice(packet, 7, 4) = v /\ Slice(packet, 19, 4) = s
    BY <1>2, <1>16, <1>18, PartSliced, 7 \in Nat, 19 \in Nat
  <1>22. /\ Unipump!AddrOfPacket(packet) = a /\ Unipump!At(packet, 3) = 67
         /\ Unipump!At(packet, 6) - 48 = nozzle
    BY <1>19, <1>20, UnipumpNumbers DEF Unipump!AddrOfPacket
  <1>23. /\ Unipump!FromLittleEndian(Unipump!Slice(packet, 7, 4)) = volume
         /\ Unipump!FromLittleEndian(Unipump!Slice(packet, 19, 4)) = amount
    BY <1>4, <1>21, UnipumpNumbers
  <1> QED
    BY <1>22, <1>23, UnipumpParsesTotals

\* The numbers of a sale that begins with the fifth byte of a packet.
LEMMA UnipumpSaleAt ==
    ASSUME NEW packet, NEW sale, NEW nozzle, NEW volume, NEW txn, NEW amount,
           Size(packet) \in Nat, sale = UnipumpSale(nozzle, volume, txn, amount),
           Has(packet, 4, sale)
    PROVE  /\ Slice(packet, 4, 2) = Digits(txn, 2) /\ At(packet, 6) = nozzle + 48
           /\ Slice(packet, 7, 6) = Digits(amount, 6)
           /\ Slice(packet, 13, 6) = Digits(volume \div 10, 6)
  <1> DEFINE t == Digits(txn, 2)
             n == <<nozzle + 48>>
             s == Digits(amount, 6)
             v == Digits(volume \div 10, 6)
  <1>1. IsSequence(t) /\ Size(t) = 2
    BY DigitsIsSequence, 2 \in 2..10
  <1>2. IsSequence(s) /\ Size(s) = 6 /\ IsSequence(v) /\ Size(v) = 6
    BY DigitsIsSequence, 6 \in 2..10
  <1>3. IsSequence(n) /\ Size(n) = 1
    BY Tuples
  <1>4. Size(sale) = 15 /\ Has(sale, 0, t) /\ Has(sale, 2, n) /\ Has(sale, 3, s) /\ Has(sale, 9, v)
    BY UnipumpSaleParts
  <1>5. n = <<nozzle + 48>>
    OBVIOUS
  <1> HIDE DEF t, n, s, v
  <1>6. Has(packet, 4 + 0, t)
    BY <1>1, <1>4, PartOfPart, 0 \in Nat, 4 \in Nat, 2 \in Nat, 15 \in Nat
  <1>7. Has(packet, 4 + 2, n)
    BY <1>3, <1>4, PartOfPart, 1 \in Nat, 4 \in Nat, 2 \in Nat, 15 \in Nat
  <1>8. Has(packet, 4 + 3, s)
    BY <1>2, <1>4, PartOfPart, 3 \in Nat, 4 \in Nat, 6 \in Nat, 15 \in Nat
  <1>9. Has(packet, 4 + 9, v)
    BY <1>2, <1>4, PartOfPart, 9 \in Nat, 4 \in Nat, 6 \in Nat, 15 \in Nat
  <1>10. Slice(packet, 4, 2) = t
    BY <1>1, <1>6, PartSliced, 4 \in Nat, 4 + 0 = 4
  <1>11. At(packet, 6) = nozzle + 48
    BY <1>5, <1>7, OneAt, 6 \in Nat, 4 + 2 = 6
  <1>12. Slice(packet, 7, 6) = s
    BY <1>2, <1>8, PartSliced, 7 \in Nat, 4 + 3 = 7
  <1>13. Slice(packet, 13, 6) = v
    BY <1>2, <1>9, PartSliced, 13 \in Nat, 4 + 9 = 13
  <1> QED
    BY <1>10, <1>11, <1>12, <1>13 DEF t, s, v

\* They are read as they were written.
LEMMA UnipumpAmountsRead ==
    ASSUME NEW packet, NEW sale, NEW nozzle, NEW volume, NEW txn, NEW amount, NEW id, NEW type,
           NEW price, Size(packet) \in Nat, sale = UnipumpSale(nozzle, volume, txn, amount),
           Has(packet, 4, sale), nozzle \in Int, txn \in Nat, txn <= 100,
           volume \in Nat, volume <= ShownVolume, volume % 10 = 0,
           amount \in Nat, amount <= ShownAmount
    PROVE  Unipump!Amounts(packet, id, type, price) =
              [id |-> id, nozzle |-> nozzle, type |-> type, volume |-> volume,
               price |-> price, txn |-> txn, amount |-> amount]
  <1>0. 10 * (volume \div 10) = volume
    BY SMT
  <1>1. volume \div 10 \in Nat /\ volume \div 10 <= ShownAmount
    BY SMT DEF ShownVolume, ShownAmount
  <1>2. /\ FromDigits(Digits(txn, 2)) = txn /\ FromDigits(Digits(amount, 6)) = amount
        /\ FromDigits(Digits(volume \div 10, 6)) = volume \div 10
    BY <1>1, DigitsReadBack, SMT DEF ShownAmount
  <1>3. /\ Slice(packet, 4, 2) = Digits(txn, 2) /\ At(packet, 6) = nozzle + 48
        /\ Slice(packet, 7, 6) = Digits(amount, 6)
        /\ Slice(packet, 13, 6) = Digits(volume \div 10, 6)
    BY UnipumpSaleAt
  <1>4. Unipump!FromDigits(Unipump!Slice(packet, 4, 2)) = txn
    BY <1>2, <1>3, UnipumpNumbers, Zenon
  <1>5. Unipump!FromDigits(Unipump!Slice(packet, 7, 6)) = amount
    BY <1>2, <1>3, UnipumpNumbers, Zenon
  <1>6. Unipump!FromDigits(Unipump!Slice(packet, 13, 6)) = volume \div 10
    BY <1>2, <1>3, UnipumpNumbers, Zenon
  <1>7. 10 * Unipump!FromDigits(Unipump!Slice(packet, 13, 6)) = volume
    BY <1>0, <1>6, Zenon
  <1>8. Unipump!At(packet, 6) - 48 = nozzle
    <2>1. Unipump!At(packet, 6) = nozzle + 48
      BY <1>3, UnipumpNumbers, Zenon
    <2> QED
      BY <2>1
  <1> QED
    BY <1>4, <1>5, <1>7, <1>8, Zenon DEF Unipump!Amounts

\* A running sale.
LEMMA UnipumpSupplyRead ==
    ASSUME NEW a, NEW packet, NEW x, NEW id, NEW nozzle, NEW volume, NEW price, NEW txn,
           NEW amount, a \in Int, Size(packet) \in Nat, nozzle \in Int, txn \in Nat, txn <= 100,
           volume \in Nat, volume <= ShownVolume, volume % 10 = 0,
           amount \in Nat, amount <= ShownAmount,
           Has(packet, 2, UnipumpContent(a, "FUEL_SUPPLY", nozzle, volume, price, txn, amount))
    PROVE  /\ Unipump!AddrOfPacket(packet) = a /\ Unipump!At(packet, 3) = 65
           /\ Unipump!ParseResponse(packet, x, id) =
                 [id |-> IF a = x THEN id ELSE 0, nozzle |-> nozzle, type |-> "FUEL_SUPPLY",
                  volume |-> volume, price |-> 0, txn |-> txn, amount |-> amount]
  <1> DEFINE start == <<a + 48, 65>>
             sale == UnipumpSale(nozzle, volume, txn, amount)
             c == UnipumpContent(a, "FUEL_SUPPLY", nozzle, volume, price, txn, amount)
             address == IF a = x THEN id ELSE 0
  <1>1. c = start \o sale
    BY DEF UnipumpContent
  <1>2. sale = UnipumpSale(nozzle, volume, txn, amount) /\ start = <<a + 48, 65>>
        /\ Has(packet, 2, c)
    OBVIOUS
  <1> HIDE DEF start, sale, c
  <1>3. IsSequence(sale)
    BY <1>2, UnipumpSaleParts
  <1>4. /\ Has(packet, 4, sale) /\ Unipump!AddrOfPacket(packet) = a
        /\ Unipump!At(packet, 3) = 65
    BY <1>1, <1>2, <1>3, UnipumpHead, ZenonT(60)
  <1>5. Unipump!Amounts(packet, address, "FUEL_SUPPLY", 0) =
              [id |-> address, nozzle |-> nozzle, type |-> "FUEL_SUPPLY", volume |-> volume,
               price |-> 0, txn |-> txn, amount |-> amount]
    BY <1>2, <1>4, UnipumpAmountsRead
  <1>6. Unipump!ParseResponse(packet, x, id) =
           Unipump!Amounts(packet, address, "FUEL_SUPPLY", 0)
    BY <1>4, UnipumpParsesSupply
  <1> QED
    BY <1>4, <1>5, <1>6

\* An ended one: the parts of its packet.
LEMMA UnipumpDoneParts ==
    ASSUME NEW a, NEW nozzle, NEW volume, NEW price, NEW txn, NEW amount, NEW c, NEW start,
           NEW sale, NEW p, start = <<a + 48, 84>>, p = Digits(price, 4),
           sale = UnipumpSale(nozzle, volume, txn, amount),
           c = UnipumpContent(a, "SUPPLY_DONE", nozzle, volume, price, txn, amount)
    PROVE  /\ IsSequence(sale) /\ Size(sale) = 15 /\ IsSequence(p) /\ Size(p) = 4
           /\ Size(start) = 2 /\ Of3(c, start, sale, p)
  <1>1. c = start \o sale \o p
    BY DEF UnipumpContent
  <1>2. IsSequence(p) /\ Size(p) = 4
    BY DigitsIsSequence, 4 \in 2..10
  <1>3. IsSequence(start) /\ Size(start) = 2
    BY Tuples
  <1>4. IsSequence(sale) /\ Size(sale) = 15
    BY UnipumpSaleParts
  <1>5. Of3(c, start, sale, p)
    BY <1>1, <1>2, <1>3, <1>4, ThreeParts, Zenon
  <1> QED
    BY <1>2, <1>3, <1>4, <1>5

\* It has a price as well.
LEMMA UnipumpDoneRead ==
    ASSUME NEW a, NEW packet, NEW x, NEW id, NEW nozzle, NEW volume, NEW price, NEW txn,
           NEW amount, a \in Int, Size(packet) \in Nat, nozzle \in Int, txn \in Nat, txn <= 100,
           volume \in Nat, volume <= ShownVolume, volume % 10 = 0, price \in Nat, price < 10000,
           amount \in Nat, amount <= ShownAmount,
           Has(packet, 2, UnipumpContent(a, "SUPPLY_DONE", nozzle, volume, price, txn, amount))
    PROVE  /\ Unipump!AddrOfPacket(packet) = a /\ Unipump!At(packet, 3) = 84
           /\ Slice(packet, 4, 2) = Digits(txn, 2)
           /\ Unipump!ParseResponse(packet, x, id) =
                 [id |-> IF a = x THEN id ELSE 0, nozzle |-> nozzle, type |-> "SUPPLY_DONE",
                  volume |-> volume, price |-> price, txn |-> txn, amount |-> amount]
  <1> DEFINE start == <<a + 48, 84>>
             sale == UnipumpSale(nozzle, volume, txn, amount)
             p == Digits(price, 4)
             c == UnipumpContent(a, "SUPPLY_DONE", nozzle, volume, price, txn, amount)
             address == IF a = x THEN id ELSE 0
  <1>2. sale = UnipumpSale(nozzle, volume, txn, amount) /\ start = <<a + 48, 84>>
        /\ Has(packet, 2, c)
    OBVIOUS
  <1>5. FromDigits(p) = price
    BY DigitsReadBack, SMT
  <1>6. /\ p = Digits(price, 4)
        /\ c = UnipumpContent(a, "SUPPLY_DONE", nozzle, volume, price, txn, amount)
    OBVIOUS
  <1> HIDE DEF start, sale, p, c, address
  <1>7. /\ IsSequence(sale) /\ Size(sale) = 15 /\ IsSequence(p) /\ Size(p) = 4
        /\ Size(start) = 2 /\ Of3(c, start, sale, p)
    BY <1>2, <1>6, UnipumpDoneParts
  <1>8. /\ Size(c) = 21 /\ Has(c, 0, start) /\ Has(c, 2, sale) /\ Has(c, 17, p)
    BY <1>7, 2 + 15 = 17, 17 + 4 = 21 DEF Of3
  <1>9. Has(packet, 2 + 0, start)
    BY <1>2, <1>7, <1>8, PartOfPart, 0 \in Nat, 2 \in Nat, 21 \in Nat
  <1>10. Has(packet, 2 + 2, sale)
    BY <1>2, <1>7, <1>8, PartOfPart, 2 \in Nat, 15 \in Nat, 21 \in Nat
  <1>11. Has(packet, 2 + 17, p)
    BY <1>2, <1>7, <1>8, PartOfPart, 2 \in Nat, 4 \in Nat, 17 \in Nat, 21 \in Nat
  <1>12. Has(packet, 4, sale)
    BY <1>10, 2 + 2 = 4
  <1>13. Slice(packet, 19, 4) = p
    BY <1>7, <1>11, PartSliced, 2 + 17 = 19, 19 \in Nat
  <1>14. Slice(packet, 4, 2) = Digits(txn, 2)
    BY <1>2, <1>12, UnipumpSaleAt
  <1>15. At(packet, 2) = a + 48 /\ At(packet, 3) = 84
    <2>1. Has(packet, 2, <<a + 48, 84>>)
      BY <1>9, 2 + 0 = 2 DEF start
    <2> QED
      BY <2>1, TwoAt, 2 \in Nat, 2 + 1 = 3
  <1>16. Unipump!AddrOfPacket(packet) = a /\ Unipump!At(packet, 3) = 84
    BY <1>15, UnipumpNumbers, SMTT(30) DEF Unipump!AddrOfPacket
  <1>17. Unipump!FromDigits(Unipump!Slice(packet, 19, 4)) = price
    BY <1>5, <1>13, UnipumpNumbers, Zenon
  <1>18. Unipump!Amounts(packet, address, "SUPPLY_DONE", price) =
              [id |-> address, nozzle |-> nozzle, type |-> "SUPPLY_DONE", volume |-> volume,
               price |-> price, txn |-> txn, amount |-> amount]
    BY <1>2, <1>12, UnipumpAmountsRead
  <1>19. Unipump!ParseResponse(packet, x, id) =
           Unipump!Amounts(packet, address, "SUPPLY_DONE", price)
    BY <1>16, <1>17, UnipumpParsesDone DEF address
  <1> QED
    BY <1>14, <1>16, <1>18, <1>19 DEF address

\* Every reply: what the master reads of it, and what it keeps of the end of a sale.
LEMMA UnipumpReplyRead ==
    ASSUME NEW a, NEW packet, NEW x, NEW id, NEW type, NEW nozzle, NEW volume, NEW price, NEW txn,
           NEW amount, a \in Int, Size(packet) \in Nat,
           Sensible(type, nozzle, volume, price, txn, amount), price < 10000,
           Has(packet, 2, UnipumpContent(a, type, nozzle, volume, price, txn, amount))
    PROVE  /\ Unipump!AddrOfPacket(packet) = a
           /\ Unipump!At(packet, 3) = 84 <=> type = "SUPPLY_DONE"
           /\ type = "SUPPLY_DONE" => Slice(packet, 4, 2) = Digits(txn, 2)
           /\ Unipump!ParseResponse(packet, x, id) =
                 UnipumpRead(a, x, id, type, nozzle, volume, price, txn, amount)
  <1>1. /\ nozzle \in Int /\ txn \in Nat /\ txn <= 100 /\ volume \in Nat
        /\ volume <= ShownVolume /\ volume % 10 = 0 /\ price \in Nat
        /\ amount \in Nat /\ amount <= ShownAmount
    BY DEF Sensible
  <1>2. CASE type \in {"HANGED_FREE", "REMOVED_WAITING"}
    <2>1. volume = 0 /\ price = 0 /\ txn = 0 /\ amount = 0
      BY <1>2 DEF Sensible, SaleTypes
    <2>2. \/ type = "HANGED_FREE" /\ nozzle = 0
          \/ type = "REMOVED_WAITING"
      BY <1>2 DEF Sensible
    <2>3. Has(packet, 2, UnipumpContent(a, type, nozzle, 0, 0, 0, 0))
      BY <2>1
    <2>4. /\ Unipump!AddrOfPacket(packet) = a /\ Unipump!At(packet, 3) = 83
          /\ Unipump!ParseResponse(packet, x, id) =
                 Unipump!Status(IF a = x THEN id ELSE 0, nozzle, type)
      BY <1>1, <2>2, <2>3, UnipumpStatusRead
    <2>5. Unipump!Status(IF a = x THEN id ELSE 0, nozzle, type) =
             UnipumpRead(a, x, id, type, nozzle, volume, price, txn, amount)
      BY <1>2, <2>1 DEF Unipump!Status, UnipumpRead
    <2> QED
      BY <1>2, <2>4, <2>5
  <1>3. CASE type = "FUEL_SUPPLY"
    <2>1. /\ Unipump!AddrOfPacket(packet) = a /\ Unipump!At(packet, 3) = 65
          /\ Unipump!ParseResponse(packet, x, id) =
                 [id |-> IF a = x THEN id ELSE 0, nozzle |-> nozzle, type |-> "FUEL_SUPPLY",
                  volume |-> volume, price |-> 0, txn |-> txn, amount |-> amount]
      BY <1>1, <1>3, UnipumpSupplyRead
    <2> QED
      BY <1>3, <2>1 DEF UnipumpRead
  <1>4. CASE type = "SUPPLY_DONE"
    <2>1. /\ Unipump!AddrOfPacket(packet) = a /\ Unipump!At(packet, 3) = 84
          /\ Slice(packet, 4, 2) = Digits(txn, 2)
          /\ Unipump!ParseResponse(packet, x, id) =
                 [id |-> IF a = x THEN id ELSE 0, nozzle |-> nozzle, type |-> "SUPPLY_DONE",
                  volume |-> volume, price |-> price, txn |-> txn, amount |-> amount]
      BY <1>1, <1>4, UnipumpDoneRead
    <2> QED
      BY <1>4, <2>1 DEF UnipumpRead
  <1>5. CASE type = "TOTAL_RESPONSE"
    <2>1. price = 0 /\ txn = 0 /\ amount = 0
      BY <1>5 DEF Sensible, SaleTypes
    <2>2. /\ Unipump!AddrOfPacket(packet) = a /\ Unipump!At(packet, 3) = 67
          /\ Unipump!ParseResponse(packet, x, id) =
                 [id |-> id, nozzle |-> nozzle, type |-> "TOTAL_RESPONSE", volume |-> volume,
                  price |-> 0, txn |-> 0, amount |-> amount]
      BY <1>1, <1>5, <2>1, UnipumpTotalsRead
    <2> QED
      BY <1>5, <2>1, <2>2 DEF UnipumpRead
  <1>6. type \in {"HANGED_FREE", "REMOVED_WAITING", "FUEL_SUPPLY", "SUPPLY_DONE", "TOTAL_RESPONSE"}
    BY DEF Sensible, Types
  <1> QED
    BY <1>2, <1>3, <1>4, <1>5, <1>6

\* What the master keeps of the end of a sale, and of no other reply.
LEMMA UnipumpKeeps ==
    ASSUME NEW packet, NEW a, NEW d, NEW kept, Unipump!AddrOfPacket(packet) = a,
           Unipump!At(packet, 3) = 84, Slice(packet, 4, 2) = d
    PROVE  Unipump!Remembered(packet, kept) = Put(kept, a, d)
  <1>1. Unipump!Slice(packet, 4, 2) = d
    BY UnipumpNumbers
  <1>2. Unipump!Remembered(packet, kept) = Unipump!Keep(packet, a, kept)
    BY DEF Unipump!Remembered
  <1> QED
    BY <1>1, <1>2, Zenon DEF Unipump!Keep, Put

-----------------------------------------------------------------------------
(***************************************************************************)
(* What the line may spoil.                                                *)
(***************************************************************************)

\* A byte spoilt outside of a part of a packet leaves the part as it is.
LEMMA SpoiltOutside ==
    ASSUME NEW packet, NEW i, NEW k, NEW s, i \in Nat, k \in Nat, IsSequence(packet), IsSequence(s),
           Has(packet, k, s), i < k \/ i >= k + Size(s)
    PROVE  Size(Spoilt(packet, i)) = Size(packet) /\ Has(Spoilt(packet, i), k, s)
  <1>1. PICK S : packet \in Seq(S)
    BY DEF IsSequence
  <1> DEFINE t == Spoilt(packet, i)
  <1>2. /\ DOMAIN t = DOMAIN packet
        /\ \A j \in DOMAIN packet : j # i + 1 => t[j] = packet[j]
    BY DEF Spoilt
  <1>3. DOMAIN packet = 1..Size(packet) /\ Size(packet) \in Nat /\ Size(s) \in Nat
    BY <1>1, SequencesHaveLengths DEF Size
  <1>4. Size(t) = Size(packet)
    <2>1. t = [j \in 1..Size(packet) |-> t[j]]
      BY <1>3 DEF Spoilt
    <2> HIDE DEF t
    <2> QED
      BY <1>3, <2>1, FunctionIsSequence
  <1> HIDE DEF t
  <1>5. ASSUME NEW j \in 1..Size(s) PROVE t[k + j] = s[j]
    <2>1. k + j \in 1..Size(packet) /\ k + j # i + 1
      BY <1>3 DEF Has
    <2> QED
      BY <1>2, <1>3, <2>1 DEF Has
  <1>6. Size(t) = Size(packet) /\ Has(t, k, s)
    BY <1>4, <1>5 DEF Has
  <1> QED
    BY <1>6 DEF t

-----------------------------------------------------------------------------
(***************************************************************************)
(* What the pumps mean.                                                    *)
(***************************************************************************)

\* What the pump p may mean: with the numbers there are digits for, those of a sale only
\* where there is a sale.
MeantBy(p, m, lang) ==
    /\ m \in MeaningsOf(p) /\ m.id = p
    /\ Sensible(m.type, m.nozzle, m.volume, m.price, m.txn, m.amount)
    /\ lang # "Shelf" => m.price < 10000
    /\ m.type \in SaleTypes <=> m.txn # 0

\* The parts of a meaning.
LEMMA MeaningFields ==
    ASSUME NEW p, NEW type, NEW nozzle, NEW volume, NEW price, NEW txn
    PROVE  LET m == Meaning(p, type, nozzle, volume, price, txn)
               sale == type \in SaleTypes
           IN  /\ m.id = p /\ m.type = type
               /\ m.nozzle = IF type = "HANGED_FREE" THEN 0 ELSE nozzle
               /\ m.volume = IF sale \/ type = "TOTAL_RESPONSE" THEN volume ELSE 0
               /\ m.price = IF sale THEN price ELSE 0
               /\ m.txn = IF sale THEN txn ELSE 0
               /\ m.amount = IF sale THEN (volume * price) \div 1000 ELSE 0
  BY Zenon DEF Meaning

\* The price of a pump's order.
LEMMA PriceOfOrder ==
    ASSUME NEW p, p \in Pumps, PumpInv(p, pump[p], protocol)
    PROVE  /\ Price(p) \in PricesOf(p) /\ Price(p) \in Nat /\ Price(p) <= LargestPrice
           /\ protocol # "Shelf" => Price(p) < 10000
  <1> DEFINE told == \E h \in pump[p].heard : h.type = "WRITE_VOLUME"
             h == CHOOSE h \in pump[p].heard : h.type = "WRITE_VOLUME"
             order == pump[p].ordered
  <1>1. CASE ~told
    <2>1. Price(p) = 0
      BY <1>1 DEF Price
    <2> QED
      BY <2>1 DEF PricesOf, LargestPrice
  <1>2. CASE told
    <2>1. h \in pump[p].heard /\ Price(p) = h.price
      BY <1>2 DEF Price
    <2>2. IsOf(h, order, protocol) /\ order \in Orders[p] \cup {NoOrder}
      BY <2>1 DEF PumpInv, Understands
    <2> HIDE DEF h, order
    <2>3. Price(p) = order.price /\ (protocol # "Shelf" => Price(p) < 10000)
      BY <2>1, <2>2 DEF IsOf
    <2>4. CASE order = NoOrder
      BY <2>3, <2>4 DEF NoOrder, PricesOf, LargestPrice
    <2>5. CASE order \in Orders[p]
      <3>1. order.price \in Nat /\ order.price <= LargestPrice
        BY <2>5, OrderFields
      <3> QED
        BY <2>3, <2>5, <3>1 DEF PricesOf
    <2> QED
      BY <2>2, <2>4, <2>5
  <1> QED
    BY <1>1, <1>2

\* The nozzle of a pump's order.
LEMMA NozzleOfOrder ==
    ASSUME NEW p, NEW nozzle, p \in Pumps, PumpInv(p, pump[p], protocol),
           nozzle = IF pump[p].ordered = NoOrder THEN 1 ELSE pump[p].ordered.nozzle
    PROVE  nozzle \in NozzlesOf(p) /\ nozzle \in 1..6
  <1>1. CASE pump[p].ordered = NoOrder
    BY <1>1 DEF NozzlesOf
  <1>2. CASE pump[p].ordered # NoOrder
    <2>1. pump[p].ordered \in Orders[p]
      BY <1>2 DEF PumpInv, Understands
    <2>2. pump[p].ordered.nozzle \in 1..6
      BY <2>1, OrderFields
    <2> QED
      BY <1>2, <2>1, <2>2 DEF NozzlesOf
  <1> QED
    BY <1>1, <1>2

\* The number of a pump's sale.
LEMMA TxnOfPump ==
    ASSUME NEW p, p \in Pumps, PumpInv(p, pump[p], protocol)
    PROVE  /\ pump[p].txn \in TxnsOf(p) /\ pump[p].txn \in Nat
           /\ pump[p].txn >= 1 /\ pump[p].txn <= 100
  <1>1. pump[p] \in PumpState /\ Counts(p, pump[p])
    BY DEF PumpInv
  <1>2. pump[p].txn \in Nat /\ pump[p].sales \in Nat
    BY <1>1, PumpStates
  <1>3. /\ FirstTxn[p] <= pump[p].txn /\ pump[p].txn <= FirstTxn[p] + pump[p].sales
        /\ pump[p].sales <= MaxSales[p]
    BY <1>1, <1>2, Numbers DEF Counts
  <1> QED
    BY <1>2, <1>3, Numbers DEF TxnsOf

\* What a pump has sold.
LEMMA SoldByPump ==
    ASSUME NEW p, p \in Pumps, PumpInv(p, pump[p], protocol)
    PROVE  /\ pump[p].portions \in 0..MaxPortions /\ Sold(p) \in Nat
           /\ Sold(p) <= ShownVolume /\ Sold(p) % 10 = 0
  <1>1. pump[p].portions \in 0..MaxPortions
    BY PumpStates DEF PumpInv
  <1> QED
    BY <1>1, ShownAssumption DEF Sold

\* The amount of a sale.
LEMMA AmountOfSale ==
    ASSUME NEW p, NEW amount, p \in Pumps, PumpInv(p, pump[p], protocol),
           amount = (Sold(p) * Price(p)) \div 1000
    PROVE  amount \in Nat /\ (Price(p) < 10000 => amount <= ShownAmount)
  <1>1. pump[p].portions \in 0..MaxPortions /\ Price(p) \in PricesOf(p)
    BY SoldByPump, PriceOfOrder
  <1> DEFINE k == pump[p].portions
             price == Price(p)
  <1>2. amount = (Portion * k * price) \div 1000
    BY DEF Sold
  <1>3. k \in 0..MaxPortions /\ price \in PricesOf(p)
    BY <1>1
  <1> HIDE DEF k, price
  <1>4. LET s == (Portion * k * price) \div 1000
        IN  s \in Nat /\ (price < 10000 => s <= ShownAmount)
    BY <1>3, ShownAssumption
  <1> QED
    BY <1>2, <1>4 DEF price

\* What a pump means by a reply is one of the things it may mean.
LEMMA MeantByPump ==
    ASSUME NEW p, NEW type, p \in Pumps, type \in Types, PumpInv(p, pump[p], protocol)
    PROVE  MeantBy(p, Meant(p, type), protocol)
  <1> DEFINE nozzle == IF pump[p].ordered = NoOrder THEN 1 ELSE pump[p].ordered.nozzle
             volume == Sold(p)
             price  == Price(p)
             txn    == pump[p].txn
             amount == (volume * price) \div 1000
             m      == Meaning(p, type, nozzle, volume, price, txn)
             sale   == type \in SaleTypes
  <1>1. Meant(p, type) = m
    BY DEF Meant
  <1>2. nozzle \in NozzlesOf(p) /\ nozzle \in 1..6
    BY NozzleOfOrder
  <1>3. /\ price \in PricesOf(p) /\ price \in Nat /\ price <= LargestPrice
        /\ protocol # "Shelf" => price < 10000
    BY PriceOfOrder
  <1>4. txn \in TxnsOf(p) /\ txn \in Nat /\ txn >= 1 /\ txn <= 100
    BY TxnOfPump
  <1>5. volume \in Nat /\ volume <= ShownVolume /\ volume % 10 = 0
    BY SoldByPump
  <1>6. amount \in Nat /\ (price < 10000 => amount <= ShownAmount)
    BY AmountOfSale
  <1>7. m \in MeaningsOf(p)
    <2>1. volume = Portion * pump[p].portions /\ pump[p].portions \in 0..MaxPortions
      BY SoldByPump DEF Sold
    <2> HIDE DEF nozzle, price, txn, volume
    <2>2. m = Meaning(p, type, nozzle, Portion * pump[p].portions, price, txn)
      BY <2>1
    <2> QED
      BY <1>2, <1>3, <1>4, <2>1, <2>2, SMT DEF MeaningsOf
  <1>8. /\ m.id = p /\ m.type = type
        /\ m.nozzle = IF type = "HANGED_FREE" THEN 0 ELSE nozzle
        /\ m.volume = IF sale \/ type = "TOTAL_RESPONSE" THEN volume ELSE 0
        /\ m.price = IF sale THEN price ELSE 0
        /\ m.txn = IF sale THEN txn ELSE 0
        /\ m.amount = IF sale THEN amount ELSE 0
    BY MeaningFields
  <1> HIDE DEF nozzle, price, txn, volume, amount, m
  <1>9. m.type \in SaleTypes <=> m.txn # 0
    BY <1>4, <1>8
  <1>10. protocol # "Shelf" => m.price < 10000
    BY <1>3, <1>8
  <1>11. /\ m.type \in Types /\ m.nozzle \in 0..6
         /\ IF m.type = "HANGED_FREE" THEN m.nozzle = 0 ELSE m.nozzle >= 1
    BY <1>2, <1>8
  <1>12. /\ m.volume \in Nat /\ m.volume <= ShownVolume /\ m.volume % 10 = 0
         /\ m.type \in {"HANGED_FREE", "REMOVED_WAITING"} => m.volume = 0
    <2>1. CASE sale \/ type = "TOTAL_RESPONSE"
      BY <1>5, <1>8, <2>1 DEF SaleTypes
    <2>2. CASE ~(sale \/ type = "TOTAL_RESPONSE")
      <3>1. 0 % 10 = 0
        OBVIOUS
      <3> QED
        BY <1>8, <2>2, <3>1 DEF ShownVolume
    <2> QED
      BY <2>1, <2>2
  <1>13. /\ m.price \in Nat /\ m.price <= LargestPrice /\ m.txn \in Nat /\ m.txn <= 100
         /\ m.amount \in Nat /\ (m.price < 10000 => m.amount <= ShownAmount)
         /\ m.type \notin SaleTypes => m.price = 0 /\ m.txn = 0 /\ m.amount = 0
    BY <1>3, <1>4, <1>6, <1>8 DEF LargestPrice, ShownAmount
  <1>14. Sensible(m.type, m.nozzle, m.volume, m.price, m.txn, m.amount)
    BY <1>11, <1>12, <1>13 DEF Sensible
  <1>15. m.id = p
    BY <1>8
  <1>16. MeantBy(p, m, protocol)
    BY <1>7, <1>9, <1>10, <1>14, <1>15 DEF MeantBy
  <1> QED
    BY <1>1, <1>16, Zenon

\* What is in a reply is a sequence of bytes.
LEMMA UnipumpContentIsSequence ==
    ASSUME NEW a, NEW type, NEW nozzle, NEW volume, NEW price, NEW txn, NEW amount, type \in Types
    PROVE  IsSequence(UnipumpContent(a, type, nozzle, volume, price, txn, amount))
  <1> DEFINE c == UnipumpContent(a, type, nozzle, volume, price, txn, amount)
             sale == UnipumpSale(nozzle, volume, txn, amount)
             p == Digits(price, 4)
  <1>1. IsSequence(sale)
    BY UnipumpSaleParts
  <1>2. IsSequence(p)
    BY DigitsIsSequence, 4 \in 2..10
  <1>3. CASE type \in {"HANGED_FREE", "REMOVED_WAITING"}
    <2> DEFINE start == <<a + 48, 83>>
               rest == IF type = "HANGED_FREE" THEN <<48, 49>> ELSE <<nozzle + 48, 51>>
    <2>1. c = start \o rest
      BY <1>3 DEF UnipumpContent
    <2>2. IsSequence(start) /\ IsSequence(rest)
      BY Tuples
    <2> HIDE DEF c, start, rest
    <2>3. IsSequence(c)
      BY <2>1, <2>2, TwoParts DEF Of2
    <2> QED
      BY <2>3 DEF c
  <1>4. CASE type = "FUEL_SUPPLY"
    <2> DEFINE start == <<a + 48, 65>>
    <2>1. c = start \o sale
      BY <1>4 DEF UnipumpContent
    <2>2. IsSequence(start)
      BY Tuples
    <2> HIDE DEF c, start, sale
    <2>3. IsSequence(c)
      BY <1>1, <2>1, <2>2, TwoParts DEF Of2
    <2> QED
      BY <2>3 DEF c
  <1>5. CASE type = "SUPPLY_DONE"
    <2> DEFINE start == <<a + 48, 84>>
    <2>1. c = start \o sale \o p
      BY <1>5 DEF UnipumpContent
    <2>2. IsSequence(start)
      BY Tuples
    <2> HIDE DEF c, start, sale, p
    <2>3. IsSequence(c)
      BY <1>1, <1>2, <2>1, <2>2, ThreeParts DEF Of3
    <2> QED
      BY <2>3 DEF c
  <1>6. CASE type = "TOTAL_RESPONSE"
    <2> DEFINE start == <<a + 48, 67>>
               n == <<48, 48, nozzle + 48>>
               v == LittleEndian(volume, 4)
               z == Repeat(0, 8)
               s == LittleEndian(amount, 4)
               y == Repeat(0, 4)
               f == start \o n \o v
               g == f \o z \o s
    <2>1. c = g \o y /\ g = f \o z \o s /\ f = start \o n \o v
      BY <1>6 DEF UnipumpContent
    <2>2. IsSequence(start) /\ IsSequence(n)
      BY Tuples
    <2>3. IsSequence(v) /\ IsSequence(s) /\ IsSequence(z) /\ IsSequence(y)
      BY LittleEndianIsSequence, RepeatIsSequence, 4 \in 2..4, 4 \in Nat, 8 \in Nat
    <2> HIDE DEF c, start, n, v, z, s, y, f, g
    <2>4. IsSequence(f)
      BY <2>1, <2>2, <2>3, ThreeParts, ZenonT(60) DEF Of3
    <2>5. IsSequence(g)
      BY <2>1, <2>3, <2>4, ThreeParts DEF Of3
    <2>6. IsSequence(c)
      BY <2>1, <2>3, <2>5, TwoParts DEF Of2
    <2> QED
      BY <2>6 DEF c
  <1> QED
    BY <1>3, <1>4, <1>5, <1>6 DEF Types

\* A reply whose content the line has spoilt does not pass the check of its checksum.
LEMMA UnipumpSpoilt ==
    ASSUME NEW p, NEW m, NEW i, NEW packet, p \in Pumps, m \in MeaningsOf(p),
           "Unipump" \in Protocols, packet = Unipump!Says(m, Addr[p]), i \in SpoiltBytes,
           i \in 2..(Len(packet) - 5)
    PROVE  ~Unipump!CheckCheckSum(Spoilt(packet, i))
  BY ChecksumsAssumption

\* One that passes it has the content it was sent with.
LEMMA UnipumpReceived ==
    ASSUME NEW p, NEW m, NEW packet, NEW sent, p \in Pumps, "Unipump" \in Protocols,
           MeantBy(p, m, "Unipump"), sent = Unipump!Says(m, Addr[p]),
           packet = sent \/ packet \in SpoiltPackets(sent), Unipump!CheckCheckSum(packet)
    PROVE  /\ Size(packet) \in Nat
           /\ Has(packet, 2, UnipumpContent(Addr[p], m.type, m.nozzle, m.volume, m.price, m.txn,
                                            m.amount))
  <1> DEFINE c == UnipumpContent(Addr[p], m.type, m.nozzle, m.volume, m.price, m.txn, m.amount)
  <1>1. Sensible(m.type, m.nozzle, m.volume, m.price, m.txn, m.amount) /\ m \in MeaningsOf(p)
    BY DEF MeantBy
  <1>2. sent = Unipump!Frame(c)
    BY <1>1, UnipumpSaysContent
  <1>3. IsSequence(c)
    BY <1>1, UnipumpContentIsSequence DEF Sensible
  <1> HIDE DEF c
  <1>4. Has(sent, 2, c) /\ Size(sent) = Size(c) + 6 /\ IsSequence(sent) /\ Size(c) \in Nat
    BY <1>2, <1>3, UnipumpFramed, SequencesHaveLengths
  <1>5. CASE packet = sent
    BY <1>4, <1>5 DEF c
  <1>6. CASE packet \in SpoiltPackets(sent)
    <2>1. PICK i \in SpoiltBytes \cap 0..(Len(sent) - 1) : packet = Spoilt(sent, i)
      BY <1>6 DEF SpoiltPackets
    <2>2. i \in Nat /\ i \in SpoiltBytes
      OBVIOUS
    <2>3. i \notin 2..(Len(sent) - 5)
      BY <1>1, <2>1, <2>2, UnipumpSpoilt
    <2>4. i < 2 \/ i >= 2 + Size(c)
      BY <1>4, <2>2, <2>3 DEF Size
    <2>5. Size(packet) = Size(sent) /\ Has(packet, 2, c)
      BY <1>3, <1>4, <2>1, <2>2, <2>4, SpoiltOutside, 2 \in Nat
    <2> QED
      BY <1>4, <2>5 DEF c
  <1> QED
    BY <1>5, <1>6

\* The line reads a reply of Unipump as it was meant, and keeps of it the end of a sale.
LEMMA UnipumpReceives ==
    ASSUME NEW p, NEW m, NEW packet, NEW sent, NEW x, NEW id, NEW kept, p \in Pumps,
           "Unipump" \in Protocols, MeantBy(p, m, "Unipump"), sent = Unipump!Says(m, Addr[p]),
           packet = sent \/ packet \in SpoiltPackets(sent), Unipump!CheckCheckSum(packet)
    PROVE  /\ Unipump!ParseResponse(packet, x, id) =
                 UnipumpRead(Addr[p], x, id, m.type, m.nozzle, m.volume, m.price, m.txn, m.amount)
           /\ Unipump!Remembered(packet, kept) =
                 IF m.type = "SUPPLY_DONE" THEN Put(kept, Addr[p], Digits(m.txn, 2)) ELSE kept
  <1> DEFINE type == m.type
             nozzle == m.nozzle
             volume == m.volume
             price == m.price
             txn == m.txn
             amount == m.amount
             a == Addr[p]
             done == type = "SUPPLY_DONE"
             d == Digits(txn, 2)
  <1>1. /\ Size(packet) \in Nat
        /\ Has(packet, 2, UnipumpContent(a, type, nozzle, volume, price, txn, amount))
    BY UnipumpReceived
  <1>2. Sensible(type, nozzle, volume, price, txn, amount) /\ price < 10000
    BY DEF MeantBy
  <1>3. a \in Int
    BY Addressed
  <1>4. done \in BOOLEAN /\ (done <=> type = "SUPPLY_DONE") /\ d = Digits(txn, 2)
    OBVIOUS
  <1> HIDE DEF type, nozzle, volume, price, txn, amount, a, done, d
  <1>5. /\ Unipump!AddrOfPacket(packet) = a /\ (Unipump!At(packet, 3) = 84 <=> type = "SUPPLY_DONE")
        /\ type = "SUPPLY_DONE" => Slice(packet, 4, 2) = Digits(txn, 2)
        /\ Unipump!ParseResponse(packet, x, id) =
              UnipumpRead(a, x, id, type, nozzle, volume, price, txn, amount)
    BY <1>1, <1>2, <1>3, UnipumpReplyRead
  <1>6. Unipump!Remembered(packet, kept) = IF done THEN Put(kept, a, d) ELSE kept
    <2>1. CASE done
      <3>1. /\ Unipump!AddrOfPacket(packet) = a /\ Unipump!At(packet, 3) = 84
            /\ Slice(packet, 4, 2) = d
        BY <1>4, <1>5, <2>1
      <3>2. Unipump!Remembered(packet, kept) = Put(kept, a, d)
        BY <3>1, UnipumpKeeps
      <3> QED
        BY <2>1, <3>2
    <2>2. CASE ~done
      BY <1>4, <1>5, <2>2 DEF Unipump!Remembered
    <2> QED
      BY <1>4, <2>1, <2>2
  <1> QED
    BY <1>5, <1>6 DEF type, nozzle, volume, price, txn, amount, a, done, d

-----------------------------------------------------------------------------
(***************************************************************************)
(* Adast: the replies.                                                     *)
(***************************************************************************)

\* A number with a point and two decimals, and the numbers of a sale.
Text(n, k) == Digits(n \div 100, k - 3) \o <<46>> \o Digits(n % 100, 2)

AdastSale(nozzle, volume, price, txn, amount) ==
    Reverse(LittleEndian(txn, 2)) \o <<nozzle + 48, 49, 48>>
    \o Text(amount, 7) \o Text(volume \div 10, 7) \o Text(price, 5)

\* Where the nozzles are: the one that is up, and the others.
NozzleStates(type, nozzle) ==
    [i \in 1..6 |-> IF type = "REMOVED_WAITING" /\ i = nozzle THEN 50 ELSE 49]

AdastData(type, nozzle, volume, price, txn, amount) ==
    CASE type \in {"HANGED_FREE", "REMOVED_WAITING"} -> <<74>> \o NozzleStates(type, nozzle)
      [] type = "FUEL_SUPPLY"    -> <<82>> \o AdastSale(nozzle, volume, price, txn, amount)
      [] type = "SUPPLY_DONE"    -> <<97>> \o AdastSale(nozzle, volume, price, txn, amount)
      [] type = "TOTAL_RESPONSE" ->
            <<66, nozzle + 48>> \o Text(volume \div 10, 13) \o Text(amount, 13)

\* The protocol writes them in this way.
LEMMA AdastTexts ==
    /\ \A n, k : Adast!Text(n, k) = Text(n, k)
    /\ \A s : Adast!Reverse(s) = Reverse(s)
  <1>1. \A n, k : Adast!Text(n, k) = Text(n, k)
    BY AdastNumbers DEF Adast!Text, Text
  <1>2. \A s : Adast!Reverse(s) = Reverse(s)
    BY DEF Adast!Reverse, Reverse
  <1> QED
    BY <1>1, <1>2

\* The packet of a reply is its data in the frame.
LEMMA AdastSaysData ==
    ASSUME NEW m, NEW a, NEW type, NEW nozzle, NEW volume, NEW price, NEW txn, NEW amount, NEW data,
           type \in Types, m.type = type, m.nozzle = nozzle,
           m.volume = volume, m.price = price, m.txn = txn, m.amount = amount,
           data = AdastData(type, nozzle, volume, price, txn, amount)
    PROVE  Adast!Says(m, a) = Adast!Frame(a, Len(data), data)
  <1>0. \/ type = "HANGED_FREE" \/ type = "REMOVED_WAITING" \/ type = "FUEL_SUPPLY"
        \/ type = "SUPPLY_DONE" \/ type = "TOTAL_RESPONSE"
    BY DEF Types
  <1>1. /\ Adast!Text(amount, 7) = Text(amount, 7)
        /\ Adast!Text(volume \div 10, 7) = Text(volume \div 10, 7)
        /\ Adast!Text(price, 5) = Text(price, 5)
        /\ Adast!Text(volume \div 10, 13) = Text(volume \div 10, 13)
        /\ Adast!Text(amount, 13) = Text(amount, 13)
        /\ Adast!Reverse(Adast!LittleEndian(txn, 2)) = Reverse(LittleEndian(txn, 2))
    BY AdastNumbers, AdastTexts
  <1>2. CASE type \in {"HANGED_FREE", "REMOVED_WAITING"}
    BY <1>1, <1>2 DEF Adast!Says, AdastData, NozzleStates
  <1>4. CASE type = "FUEL_SUPPLY"
    BY <1>1, <1>4 DEF Adast!Says, AdastData, AdastSale
  <1>5. CASE type = "SUPPLY_DONE"
    BY <1>1, <1>5 DEF Adast!Says, AdastData, AdastSale
  <1>6. CASE type = "TOTAL_RESPONSE"
    BY <1>1, <1>6 DEF Adast!Says, AdastData
  <1> QED
    BY <1>0, <1>2, <1>4, <1>5, <1>6

\* A number with a point is a sequence of seven or thirteen bytes,
LEMMA TextIsSequence ==
    ASSUME NEW n, NEW k, NEW j, NEW t, NEW u, NEW w, k = j + 3, j \in 2..10, t = Text(n, k),
           u = Digits(n \div 100, j), w = Digits(n % 100, 2)
    PROVE  /\ IsSequence(t) /\ Size(t) = k /\ Has(t, 0, u) /\ Has(t, j + 1, w)
           /\ IsSequence(u) /\ Size(u) = j /\ IsSequence(w) /\ Size(w) = 2
  <1> DEFINE point == <<46>>
  <1>1. k - 3 = j
    OBVIOUS
  <1>2. t = u \o point \o w
    BY <1>1 DEF Text
  <1>3. IsSequence(u) /\ Size(u) = j /\ IsSequence(w) /\ Size(w) = 2
    BY DigitsIsSequence, 2 \in 2..10
  <1>4. IsSequence(point) /\ Size(point) = 1
    BY Tuples
  <1> HIDE DEF point
  <1>5. Of3(t, u, point, w)
    BY <1>2, <1>3, <1>4, ThreeParts
  <1>6. (j + 1) + 2 = k
    OBVIOUS
  <1>7. IsSequence(t) /\ Size(t) = k /\ Has(t, 0, u) /\ Has(t, j + 1, w)
    BY <1>3, <1>4, <1>5, <1>6 DEF Of3
  <1> QED
    BY <1>3, <1>7

\* The sizes there are.
LEMMA TextSizes ==
    \A n : /\ IsSequence(Text(n, 5)) /\ Size(Text(n, 5)) = 5
          /\ IsSequence(Text(n, 7)) /\ Size(Text(n, 7)) = 7
          /\ IsSequence(Text(n, 13)) /\ Size(Text(n, 13)) = 13
  <1>1. ASSUME NEW n PROVE IsSequence(Text(n, 5)) /\ Size(Text(n, 5)) = 5
    BY TextIsSequence, 5 = 2 + 3, 2 \in 2..10
  <1>2. ASSUME NEW n PROVE IsSequence(Text(n, 7)) /\ Size(Text(n, 7)) = 7
    BY TextIsSequence, 7 = 4 + 3, 4 \in 2..10
  <1>3. ASSUME NEW n PROVE IsSequence(Text(n, 13)) /\ Size(Text(n, 13)) = 13
    BY TextIsSequence, 13 = 10 + 3, 10 \in 2..10
  <1> QED
    BY <1>1, <1>2, <1>3

\* Hundreds and what is left of them.
LEMMA Hundreds ==
    ASSUME NEW n, n \in Nat
    PROVE  100 * (n \div 100) + (n % 100) = n /\ n % 100 \in 0..99 /\ n \div 100 \in Nat
  <1>1. 100 * (n \div 100) + (n % 100) = n
    BY SMT
  <1>2. n % 100 \in 0..99 /\ n \div 100 \in Nat
    BY SMT
  <1> QED
    BY <1>1, <1>2

\* and is read as it was written.
LEMMA TextRead ==
    ASSUME NEW packet, NEW i, NEW e, NEW k, NEW j, NEW n, i \in Nat,
           Size(packet) \in Nat, n \in Nat, k = j + 3, e = i + k, j \in 2..10,
           Has(packet, i, Text(n, k)),
           FromDigits(Digits(n \div 100, j)) = n \div 100
    PROVE  Adast!Hundredths(packet, i, e) = n
  <1> DEFINE t == Text(n, k)
             u == Digits(n \div 100, j)
             w == Digits(n % 100, 2)
  <1>1. j \in Nat /\ k \in Nat /\ j + 1 \in Nat
    OBVIOUS
  <1>2. t = Text(n, k) /\ u = Digits(n \div 100, j) /\ w = Digits(n % 100, 2) /\ Has(packet, i, t)
    OBVIOUS
  <1>3. FromDigits(w) = n % 100
    <2>1. n % 100 \in Nat /\ n % 100 < 2080
      BY Hundreds
    <2> QED
      BY <2>1, DigitsReadBack
  <1>4. FromDigits(u) = n \div 100
    OBVIOUS
  <1> HIDE DEF t, u, w
  <1>5. /\ IsSequence(t) /\ Size(t) = k /\ Has(t, 0, u) /\ Has(t, j + 1, w)
        /\ IsSequence(u) /\ Size(u) = j /\ IsSequence(w) /\ Size(w) = 2
    BY <1>2, TextIsSequence
  <1>6. e - i = k /\ e - 2 = i + (j + 1) /\ i + 0 = i /\ k - 3 = j
    BY <1>1
  <1>7. Has(packet, i + 0, u)
    BY <1>1, <1>2, <1>5, PartOfPart, 0 \in Nat
  <1>8. Has(packet, i + (j + 1), w)
    BY <1>1, <1>2, <1>5, PartOfPart, 2 \in Nat
  <1>9. Slice(packet, i, j) = u
    BY <1>5, <1>6, <1>7, PartSliced
  <1>10. Slice(packet, i + (j + 1), 2) = w
    <2>1. i + (j + 1) \in Nat
      BY <1>1
    <2> QED
      BY <1>5, <1>8, <2>1, PartSliced
  <1>11. Adast!Slice(packet, i, k - 3) = u /\ Adast!Slice(packet, e - 2, 2) = w
    BY <1>6, <1>9, <1>10, AdastNumbers
  <1>12. Adast!FromDigits(Adast!Slice(packet, i, k - 3)) = n \div 100
    BY <1>4, <1>11, AdastNumbers
  <1>13. Adast!FromDigits(Adast!Slice(packet, e - 2, 2)) = n % 100
    BY <1>3, <1>11, AdastNumbers
  <1>14. Adast!Hundredths(packet, i, e) =
            100 * Adast!FromDigits(Adast!Slice(packet, i, k - 3))
            + Adast!FromDigits(Adast!Slice(packet, e - 2, 2))
    BY <1>6 DEF Adast!Hundredths
  <1> QED
    BY <1>12, <1>13, <1>14, Hundreds

\* A sequence of n bytes is a function on 1..n,
LEMMA SequenceIsFunction ==
    ASSUME NEW s, NEW n, IsSequence(s), Size(s) = n
    PROVE  s = [i \in 1..n |-> s[i]]
  <1>1. PICK S : s \in Seq(S)
    BY DEF IsSequence
  <1>2. s = [i \in 1..Len(s) |-> s[i]]
    BY <1>1
  <1> QED
    BY <1>2 DEF Size

\* and reversed it is one, too.
LEMMA ReversedBytes ==
    ASSUME NEW s, NEW n, NEW t, IsSequence(s), Size(s) = n, t = Reverse(s)
    PROVE  /\ IsSequence(t) /\ Size(t) = n /\ t = [i \in 1..n |-> t[i]]
           /\ \A i \in 1..n : t[i] = s[(n - i) + 1]
  <1>1. t = [i \in 1..n |-> s[(n - i) + 1]]
    BY DEF Reverse, Size
  <1>2. t = [i \in 1..n |-> t[i]] /\ \A i \in 1..n : t[i] = s[(n - i) + 1]
    BY <1>1
  <1>3. n \in Nat
    BY SequencesHaveLengths
  <1>4. IsSequence(t) /\ Size(t) = n
    BY <1>2, <1>3, FunctionIsSequence
  <1> QED
    BY <1>2, <1>4

\* Bytes exchanged twice.
LEMMA ReversedTwice ==
    ASSUME NEW b, NEW n, NEW s, IsSequence(b), Size(b) = n, s = Reverse(b)
    PROVE  IsSequence(s) /\ Size(s) = n /\ Reverse(s) = b
  <1> DEFINE t == Reverse(s)
  <1>1. /\ IsSequence(s) /\ Size(s) = n /\ n \in Nat
        /\ \A i \in 1..n : s[i] = b[(n - i) + 1]
    BY ReversedBytes, SequencesHaveLengths
  <1>2. t = Reverse(s)
    OBVIOUS
  <1> HIDE DEF t
  <1>3. t = [i \in 1..n |-> t[i]] /\ \A i \in 1..n : t[i] = s[(n - i) + 1]
    BY <1>1, <1>2, ReversedBytes
  <1>4. \A i \in 1..n : t[i] = b[i]
    <2>1. ASSUME NEW i \in 1..n PROVE t[i] = b[i]
      <3>1. (n - i) + 1 \in 1..n /\ (n - ((n - i) + 1)) + 1 = i
        BY <1>1
      <3> QED
        BY <1>1, <1>3, <3>1
    <2> QED
      BY <2>1
  <1>5. b = [i \in 1..n |-> b[i]]
    BY SequenceIsFunction
  <1> QED
    BY <1>1, <1>2, <1>3, <1>4, <1>5

\* The two bytes of a number of a sale, the higher first.
LEMMA NumberReversed ==
    ASSUME NEW n, NEW s, n \in Nat, n < 65536, s = Reverse(LittleEndian(n, 2))
    PROVE  IsSequence(s) /\ Size(s) = 2 /\ FromLittleEndian(Reverse(s)) = n
  <1> DEFINE b == LittleEndian(n, 2)
  <1>1. IsSequence(b) /\ Size(b) = 2
    BY LittleEndianIsSequence, 2 \in 2..4
  <1>2. s = Reverse(b)
    OBVIOUS
  <1>3. FromLittleEndian(b) = n
    BY BytesReadBack
  <1> HIDE DEF b
  <1>4. IsSequence(s) /\ Size(s) = 2 /\ Reverse(s) = b
    BY <1>1, <1>2, ReversedTwice
  <1> QED
    BY <1>3, <1>4

\* The parts of a sale, wherever it stands in a packet.
LEMMA AdastSaleParts ==
    ASSUME NEW nozzle, NEW volume, NEW price, NEW txn, NEW amount, NEW sale, NEW r, NEW n, NEW v,
           sale = AdastSale(nozzle, volume, price, txn, amount),
           r = Reverse(LittleEndian(txn, 2)), n = <<nozzle + 48, 49, 48>>,
           v = Text(volume \div 10, 7)
    PROVE  /\ IsSequence(sale) /\ Size(sale) = 24 /\ IsSequence(r) /\ Size(r) = 2 /\ Size(n) = 3
           /\ Size(v) = 7 /\ Has(sale, 0, r) /\ Has(sale, 2, n) /\ Has(sale, 12, v)
  <1> DEFINE s == Text(amount, 7)
             p == Text(price, 5)
             f == r \o n \o s
             b == LittleEndian(txn, 2)
  <1>1. sale = f \o v \o p
    BY DEF AdastSale
  <1>2. IsSequence(b) /\ Size(b) = 2 /\ r = Reverse(b)
    BY LittleEndianIsSequence, 2 \in 2..4
  <1>3. IsSequence(n) /\ Size(n) = 3
    BY Tuples
  <1>4. IsSequence(s) /\ Size(s) = 7
    BY TextSizes
  <1>5. IsSequence(v) /\ Size(v) = 7
    BY TextSizes
  <1>6. IsSequence(p) /\ Size(p) = 5
    BY TextSizes
  <1>7. f = r \o n \o s
    OBVIOUS
  <1> HIDE DEF s, p, f, b
  <1>8. IsSequence(r) /\ Size(r) = 2
    BY <1>2, ReversedBytes
  <1>9. Of3(f, r, n, s)
    BY <1>3, <1>4, <1>7, <1>8, ThreeParts
  <1>10. IsSequence(f) /\ Size(f) = 12 /\ Has(f, 0, r) /\ Has(f, 2, n)
    BY <1>3, <1>4, <1>8, <1>9, 2 + 3 = 5, 5 + 7 = 12 DEF Of3
  <1>11. Of3(sale, f, v, p)
    BY <1>1, <1>5, <1>6, <1>10, ThreeParts
  <1>12. IsSequence(sale) /\ Size(sale) = 24 /\ Has(sale, 0, f) /\ Has(sale, 12, v)
    BY <1>5, <1>6, <1>10, <1>11, 12 + 7 = 19, 19 + 5 = 24 DEF Of3
  <1>13. Has(sale, 0 + 0, r)
    BY <1>8, <1>10, <1>12, PartOfPart, 0 \in Nat, 2 \in Nat, 12 \in Nat, 24 \in Nat
  <1>14. Has(sale, 0 + 2, n)
    BY <1>3, <1>10, <1>12, PartOfPart, 0 \in Nat, 2 \in Nat, 3 \in Nat, 12 \in Nat, 24 \in Nat
  <1> QED
    BY <1>3, <1>5, <1>8, <1>10, <1>12, <1>13, <1>14, 0 + 0 = 0, 0 + 2 = 2

\* The numbers of a sale that begins with the sixth byte of a packet.
LEMMA AdastSaleAt ==
    ASSUME NEW packet, NEW sale, NEW nozzle, NEW volume, NEW price, NEW txn, NEW amount,
           Size(packet) \in Nat, sale = AdastSale(nozzle, volume, price, txn, amount),
           Has(packet, 5, sale)
    PROVE  /\ Slice(packet, 5, 2) = Reverse(LittleEndian(txn, 2)) /\ At(packet, 7) = nozzle + 48
           /\ Has(packet, 17, Text(volume \div 10, 7))
  <1> DEFINE r == Reverse(LittleEndian(txn, 2))
             n == <<nozzle + 48, 49, 48>>
             v == Text(volume \div 10, 7)
  <1>1. /\ IsSequence(sale) /\ Size(sale) = 24 /\ IsSequence(r) /\ Size(r) = 2 /\ Size(n) = 3
        /\ Size(v) = 7 /\ Has(sale, 0, r) /\ Has(sale, 2, n) /\ Has(sale, 12, v)
    BY AdastSaleParts
  <1>2. n = <<nozzle + 48, 49, 48>>
    OBVIOUS
  <1> HIDE DEF r, n, v
  <1>3. Has(packet, 5 + 0, r)
    BY <1>1, PartOfPart, 0 \in Nat, 5 \in Nat, 2 \in Nat, 24 \in Nat
  <1>4. Has(packet, 5 + 2, n)
    BY <1>1, PartOfPart, 3 \in Nat, 5 \in Nat, 2 \in Nat, 24 \in Nat
  <1>5. Has(packet, 5 + 12, v)
    BY <1>1, PartOfPart, 12 \in Nat, 5 \in Nat, 7 \in Nat, 24 \in Nat
  <1>6. Slice(packet, 5, 2) = r
    BY <1>1, <1>3, PartSliced, 5 \in Nat, 5 + 0 = 5
  <1>7. At(packet, 7) = nozzle + 48
    BY <1>2, <1>4, ThreeAt, 7 \in Nat, 5 + 2 = 7
  <1> QED
    BY <1>5, <1>6, <1>7, 5 + 12 = 17 DEF r, v

\* What parseResponse makes of the amounts of a sale: of its own pump, the sale.
LEMMA AdastParsesSale ==
    ASSUME NEW packet, NEW x, NEW id, NEW known, NEW s, NEW type, NEW v,
           \/ Adast!At(packet, 4) = 82 /\ type = "FUEL_SUPPLY"
           \/ Adast!At(packet, 4) = 97 /\ type = "SUPPLY_DONE",
           Adast!Hundredths(packet, 17, 24) = v,
           s \in Adast!ParseResponse(packet, x, id, known)
    PROVE  /\ s.type # "ERROR" =>
                 /\ Adast!AddrOfPacket(packet) = x /\ s.id = id /\ s.type = type
                 /\ s.nozzle = Adast!At(packet, 7) - 48
                 /\ s.txn = Adast!FromLittleEndian(Adast!Reverse(Adast!Slice(packet, 5, 2)))
           /\ s.volume \in Adast!VolumeInMl(v) /\ s.id \in {Adast!AddrOfPacket(packet), id}
  <1> DEFINE own(t) == IF t.id = x THEN [t EXCEPT !.id = id] ELSE [t EXCEPT !.type = "ERROR"]
             sales == Adast!ParseAmounts(packet, type, known)
  <1>1. s \in {own(t) : t \in sales}
    BY SMT DEF Adast!ParseResponse
  <1>2. PICK t \in sales : s = own(t)
    BY <1>1
  <1>3. PICK ml \in Adast!VolumeInMl(v) : \E price, sum :
           t = [id |-> Adast!AddrOfPacket(packet), nozzle |-> Adast!At(packet, 7) - 48,
                type |-> type, volume |-> ml, price |-> price,
                txn |-> Adast!FromLittleEndian(Adast!Reverse(Adast!Slice(packet, 5, 2))),
                amount |-> sum]
    BY <1>2 DEF Adast!ParseAmounts
  <1>4. CASE t.id = x
    <2>1. s = [t EXCEPT !.id = id]
      BY <1>2, <1>4
    <2> QED
      BY <1>3, <1>4, <2>1
  <1>5. CASE t.id # x
    <2>1. s = [t EXCEPT !.type = "ERROR"]
      BY <1>2, <1>5
    <2> QED
      BY <1>3, <2>1
  <1> QED
    BY <1>4, <1>5

\* The states of the nozzles in a packet.
ShowsNozzles(packet, g) == \A i \in 5..10 : At(packet, i) = g[i - 4]

\* They follow the code, a byte for each nozzle.
LEMMA AdastNozzlesAt ==
    ASSUME NEW packet, NEW data, NEW start, NEW g, Size(packet) \in Nat, Has(packet, 4, data),
           start = << 74 >>, data = start \o g, IsSequence(g), Size(g) = 6
    PROVE  At(packet, 4) = 74 /\ Size(packet) >= 11 /\ ShowsNozzles(packet, g)
  <1>1. IsSequence(start) /\ Size(start) = 1
    BY Tuples
  <1>5. Of2(data, start, g)
    BY <1>1, TwoParts
  <1>6. Size(data) = 7 /\ Has(data, 0, start) /\ Has(data, 1, g)
    BY <1>1, <1>5 DEF Of2
  <1>7. Has(packet, 4 + 0, start) /\ Has(packet, 4 + 1, g)
    BY <1>1, <1>6, PartOfPart, 0 \in Nat, 1 \in Nat, 4 \in Nat, 6 \in Nat, 7 \in Nat, ZenonT(60)
  <1>8. Has(packet, 4, <<74>>) /\ Has(packet, 5, g)
    BY <1>7, 4 + 0 = 4, 4 + 1 = 5
  <1>9. At(packet, 4) = 74
    BY <1>8, OneAt, 4 \in Nat
  <1>10. Size(packet) >= 11
    BY <1>8 DEF Has
  <1>11. ASSUME NEW i \in 5..10 PROVE At(packet, i) = g[i - 4]
    <2>1. i - 5 \in Nat /\ i - 5 < 6 /\ 5 + (i - 5) = i /\ (i - 5) + 1 = i - 4
      OBVIOUS
    <2>2. At(packet, 5 + (i - 5)) = g[(i - 5) + 1]
      BY <1>8, <2>1, PartAt, 5 \in Nat
    <2> QED
      BY <2>1, <2>2
  <1> QED
    BY <1>9, <1>10, <1>11 DEF ShowsNozzles

\* They are read as the nozzle that is up, or none.
LEMMA AdastStatusRead ==
    ASSUME NEW packet, NEW type, NEW nozzle, NEW start, NEW g, NEW data, Size(packet) \in Nat,
           \/ type = "HANGED_FREE" /\ nozzle = 0
           \/ type = "REMOVED_WAITING" /\ nozzle \in 1..6,
           start = << 74 >>, g = NozzleStates(type, nozzle), data = start \o g, Has(packet, 4, data)
    PROVE  /\ Adast!At(packet, 4) = 74
           /\ Adast!ParseHangedFreeInfo(packet) =
                 Adast!Status(Adast!AddrOfPacket(packet), nozzle, type)
  <1> DEFINE up == {i \in 5..10 : i < Len(packet) /\ Adast!At(packet, i) - 48 \notin {0, 1}}
             first == CHOOSE i \in up : \A k \in up : i <= k
  <1>0. g = [i \in 1..6 |-> g[i]]
    BY DEF NozzleStates
  <1>2. \A i \in 1..6 : g[i] = IF type = "REMOVED_WAITING" /\ i = nozzle THEN 50 ELSE 49
    BY DEF NozzleStates
  <1>b. IsSequence(g) /\ Size(g) = 6
    BY <1>0, FunctionIsSequence, 6 \in Nat
  <1>3. At(packet, 4) = 74 /\ Size(packet) >= 11 /\ ShowsNozzles(packet, g)
    <2> HIDE DEF up, first
    <2> QED
      BY <1>b, AdastNozzlesAt, ZenonT(60)
  <1>4. Adast!At(packet, 4) = 74
    BY <1>3, AdastNumbers
  <1>5. \A i \in 5..10 :
           /\ i < Len(packet)
           /\ Adast!At(packet, i) = IF type = "REMOVED_WAITING" /\ i - 4 = nozzle THEN 50 ELSE 49
    <2>1. ASSUME NEW i \in 5..10
          PROVE  /\ i < Len(packet)
                 /\ Adast!At(packet, i) =
                       IF type = "REMOVED_WAITING" /\ i - 4 = nozzle THEN 50 ELSE 49
      <3>1. i - 4 \in 1..6 /\ i < Size(packet)
        BY <1>3
      <3>2. Adast!At(packet, i) = g[i - 4]
        BY <1>3, AdastNumbers DEF ShowsNozzles
      <3> QED
        BY <1>2, <3>1, <3>2 DEF Size
    <2> QED
      BY <2>1
  <1>6. CASE type = "HANGED_FREE"
    <2>1. up = {}
      BY <1>5, <1>6
    <2> HIDE DEF up, first
    <2>2. Adast!ParseHangedFreeInfo(packet) =
             Adast!Status(Adast!AddrOfPacket(packet), 0, "HANGED_FREE")
      BY <2>1, Zenon DEF Adast!ParseHangedFreeInfo, up
    <2> QED
      BY <1>4, <1>6, <2>2
  <1>7. CASE type = "REMOVED_WAITING"
    <2>1. nozzle \in 1..6 /\ 4 + nozzle \in 5..10
      BY <1>7
    <2>2. up = {4 + nozzle}
      <3>1. ASSUME NEW i \in up
            PROVE  i = 4 + nozzle
        <4>1. i \in 5..10 /\ Adast!At(packet, i) - 48 \notin {0, 1}
          OBVIOUS
        <4>2. Adast!At(packet, i) = IF i - 4 = nozzle THEN 50 ELSE 49
          BY <1>5, <1>7, <4>1
        <4> HIDE DEF up, first
        <4> QED
          BY <2>1, <4>1, <4>2
      <3>2. 4 + nozzle < Len(packet) /\ Adast!At(packet, 4 + nozzle) = 50
        BY <1>5, <1>7, <2>1
      <3>3. 4 + nozzle \in up
        BY <2>1, <3>2
      <3> HIDE DEF up, first
      <3> QED
        BY <3>1, <3>3
    <2>3. first = 4 + nozzle
      <3> HIDE DEF up
      <3> QED
        BY <2>1, <2>2
    <2>4. Adast!At(packet, first) - 48 = 2 /\ first - 4 = nozzle /\ up # {}
      <3> HIDE DEF up, first
      <3> QED
        BY <1>5, <1>7, <2>1, <2>2, <2>3
    <2>5. Adast!ParseHangedFreeInfo(packet) =
             Adast!Status(Adast!AddrOfPacket(packet), first - 4, "REMOVED_WAITING")
      BY <2>4, SMT DEF Adast!ParseHangedFreeInfo
    <2> QED
      BY <1>4, <1>7, <2>4, <2>5
  <1> QED
    BY <1>6, <1>7

\* The answer to a request for totals.
LEMMA AdastTotalsAt ==
    ASSUME NEW packet, NEW data, NEW nozzle, NEW volume, NEW amount, Size(packet) \in Nat,
           Has(packet, 4, data),
           data = <<66, nozzle + 48>> \o Text(volume \div 10, 13) \o Text(amount, 13)
    PROVE  /\ At(packet, 4) = 66 /\ At(packet, 5) = nozzle + 48
           /\ Has(packet, 6, Text(volume \div 10, 13))
  <1> DEFINE start == <<66, nozzle + 48>>
             v == Text(volume \div 10, 13)
             s == Text(amount, 13)
  <1>1. IsSequence(start) /\ Size(start) = 2
    BY Tuples
  <1>2. IsSequence(v) /\ Size(v) = 13
    BY TextSizes
  <1>3. IsSequence(s)
    BY TextSizes
  <1>4. data = start \o v \o s /\ start = <<66, nozzle + 48>>
    OBVIOUS
  <1> HIDE DEF start, v, s
  <1>5. Of3(data, start, v, s)
    BY <1>1, <1>2, <1>3, <1>4, ThreeParts
  <1>6. Has(data, 0, start) /\ Has(data, 2, v) /\ Size(data) \in Nat
    BY <1>1, <1>2, <1>5, SequencesHaveLengths DEF Of3
  <1>7. Has(packet, 4 + 0, start) /\ Has(packet, 4 + 2, v)
    BY <1>1, <1>2, <1>6, PartOfPart, 0 \in Nat, 2 \in Nat, 4 \in Nat, 13 \in Nat
  <1>8. Has(packet, 4, <<66, nozzle + 48>>)
    BY <1>4, <1>7, 4 + 0 = 4
  <1>9. At(packet, 4) = 66 /\ At(packet, 5) = nozzle + 48
    BY <1>8, TwoAt, 4 \in Nat, 4 + 1 = 5, SMTT(30)
  <1> QED
    BY <1>7, <1>9, 4 + 2 = 6 DEF v

\* The code of a sale and what follows it.
LEMMA AdastCodeAt ==
    ASSUME NEW packet, NEW data, NEW code, NEW sale, Size(packet) \in Nat, Has(packet, 4, data),
           data = <<code>> \o sale, IsSequence(sale)
    PROVE  At(packet, 4) = code /\ Has(packet, 5, sale)
  <1> DEFINE start == <<code>>
  <1>1. IsSequence(start) /\ Size(start) = 1
    BY Tuples
  <1>2. data = start \o sale /\ start = <<code>>
    OBVIOUS
  <1> HIDE DEF start
  <1>3. Of2(data, start, sale)
    BY <1>1, <1>2, TwoParts
  <1>4. /\ Has(data, 0, start) /\ Has(data, 1, sale) /\ Size(data) \in Nat /\ Size(sale) \in Nat
    BY <1>1, <1>3, SequencesHaveLengths DEF Of2
  <1>5. Has(packet, 4 + 0, start) /\ Has(packet, 4 + 1, sale)
    BY <1>1, <1>4, PartOfPart, 0 \in Nat, 1 \in Nat, 4 \in Nat
  <1>6. Has(packet, 4, <<code>>)
    BY <1>2, <1>5, 4 + 0 = 4
  <1> QED
    BY <1>5, <1>6, OneAt, 4 \in Nat, 4 + 1 = 5

\* What is in a reply is a sequence of bytes.
LEMMA AdastDataIsSequence ==
    ASSUME NEW type, NEW nozzle, NEW volume, NEW price, NEW txn, NEW amount, type \in Types
    PROVE  IsSequence(AdastData(type, nozzle, volume, price, txn, amount))
  <1> DEFINE data == AdastData(type, nozzle, volume, price, txn, amount)
             sale == AdastSale(nozzle, volume, price, txn, amount)
             r == Reverse(LittleEndian(txn, 2))
             n == <<nozzle + 48, 49, 48>>
             v == Text(volume \div 10, 7)
  <1>1. IsSequence(sale)
    <2>1. /\ sale = AdastSale(nozzle, volume, price, txn, amount)
          /\ r = Reverse(LittleEndian(txn, 2)) /\ n = <<nozzle + 48, 49, 48>>
          /\ v = Text(volume \div 10, 7)
      OBVIOUS
    <2> HIDE DEF sale, r, n, v
    <2> QED
      BY <2>1, AdastSaleParts
  <1>2. CASE type \in {"HANGED_FREE", "REMOVED_WAITING"}
    <2> DEFINE start == <<74>>
               g == NozzleStates(type, nozzle)
    <2>1. data = start \o g
      BY <1>2 DEF AdastData
    <2>2. IsSequence(start)
      BY Tuples
    <2>3. g = [i \in 1..6 |-> g[i]]
      BY DEF NozzleStates
    <2> HIDE DEF data, start, g
    <2>4. IsSequence(g)
      BY <2>3, FunctionIsSequence, 6 \in Nat
    <2>5. IsSequence(data)
      BY <2>1, <2>2, <2>4, TwoParts DEF Of2
    <2> QED
      BY <2>5 DEF data
  <1>3. CASE type \in SaleTypes
    <2> DEFINE start == IF type = "FUEL_SUPPLY" THEN <<82>> ELSE <<97>>
    <2>1. data = start \o sale
      BY <1>3 DEF AdastData, SaleTypes
    <2>2. IsSequence(start)
      BY Tuples
    <2> HIDE DEF data, start, sale
    <2>3. IsSequence(data)
      BY <1>1, <2>1, <2>2, TwoParts DEF Of2
    <2> QED
      BY <2>3 DEF data
  <1>4. CASE type = "TOTAL_RESPONSE"
    <2> DEFINE start == <<66, nozzle + 48>>
               t == Text(volume \div 10, 13)
               s == Text(amount, 13)
    <2>1. data = start \o t \o s
      BY <1>4 DEF AdastData
    <2>2. IsSequence(start) /\ IsSequence(t) /\ IsSequence(s)
      BY Tuples, TextSizes
    <2> HIDE DEF data, start, t, s
    <2>3. IsSequence(data)
      BY <2>1, <2>2, ThreeParts DEF Of3
    <2> QED
      BY <2>3 DEF data
  <1> QED
    BY <1>2, <1>3, <1>4 DEF Types, SaleTypes

\* A reply whose address or data the line has spoilt does not pass the check.
LEMMA AdastSpoilt ==
    ASSUME NEW p, NEW m, NEW i, NEW packet, p \in Pumps, m \in MeaningsOf(p),
           "Adast" \in Protocols, packet = Adast!Says(m, Addr[p]), i \in SpoiltBytes,
           i \in 2..(Len(packet) - 4)
    PROVE  ~Adast!CheckCheckSum(Spoilt(packet, i))
  BY ChecksumsAssumption

\* One that passes it has the address and the data it was sent with.
LEMMA AdastReceived ==
    ASSUME NEW p, NEW m, NEW packet, NEW sent, p \in Pumps, "Adast" \in Protocols,
           MeantBy(p, m, "Adast"), sent = Adast!Says(m, Addr[p]),
           packet = sent \/ packet \in SpoiltPackets(sent), Adast!CheckCheckSum(packet)
    PROVE  /\ Size(packet) \in Nat /\ At(packet, 2) = Addr[p]
           /\ Has(packet, 4, AdastData(m.type, m.nozzle, m.volume, m.price, m.txn, m.amount))
  <1> DEFINE data == AdastData(m.type, m.nozzle, m.volume, m.price, m.txn, m.amount)
             a == Addr[p]
             n == Len(data)
             head == <<a, n>>
  <1>1. m.type \in Types /\ m \in MeaningsOf(p)
    BY DEF MeantBy, Sensible
  <1>2. sent = Adast!Frame(a, n, data)
    BY <1>1, AdastSaysData
  <1>3. IsSequence(data)
    BY <1>1, AdastDataIsSequence
  <1>4. head = <<a, n>>
    OBVIOUS
  <1>5. IsSequence(head) /\ Size(head) = 2
    BY Tuples
  <1> HIDE DEF data, head, n
  <1>6. /\ Has(sent, 2, head) /\ Has(sent, 4, data)
        /\ Size(sent) = Size(data) + 7 /\ IsSequence(sent) /\ Size(data) \in Nat
    BY <1>2, <1>3, <1>4, AdastFramed, SequencesHaveLengths
  <1>7. Size(packet) = Size(sent) /\ Has(packet, 2, head) /\ Has(packet, 4, data)
    <2>1. CASE packet = sent
      BY <1>6, <2>1
    <2>2. CASE packet \in SpoiltPackets(sent)
      <3>1. PICK i \in SpoiltBytes \cap 0..(Len(sent) - 1) : packet = Spoilt(sent, i)
        BY <2>2 DEF SpoiltPackets
      <3>2. i \in Nat /\ i \in SpoiltBytes
        OBVIOUS
      <3>3. i \notin 2..(Len(sent) - 4)
        BY <1>1, <3>1, <3>2, AdastSpoilt DEF a
      <3>4. i < 2 \/ (i >= 4 /\ i >= 4 + Size(data))
        BY <1>6, <3>2, <3>3 DEF Size
      <3>5. i < 2 \/ i >= 2 + Size(head)
        BY <1>5, <3>2, <3>4
      <3>6. i < 4 \/ i >= 4 + Size(data)
        BY <3>2, <3>4
      <3>7. Size(packet) = Size(sent) /\ Has(packet, 2, head)
        BY <1>5, <1>6, <3>1, <3>2, <3>5, SpoiltOutside, 2 \in Nat
      <3>8. Has(packet, 4, data)
        BY <1>3, <1>6, <3>1, <3>2, <3>6, SpoiltOutside, 4 \in Nat
      <3> QED
        BY <3>7, <3>8
    <2> QED
      BY <2>1, <2>2
  <1>8. At(packet, 2) = a
    BY <1>4, <1>7, TwoAt, 2 \in Nat
  <1> QED
    BY <1>6, <1>7, <1>8 DEF data

\* What parseResponse makes of the states of the nozzles,
LEMMA AdastParsesStatus ==
    ASSUME NEW packet, NEW x, NEW id, NEW known, NEW a, NEW nozzle, NEW type, NEW s,
           Adast!At(packet, 4) = 74,
           Adast!ParseHangedFreeInfo(packet) = Adast!Status(a, nozzle, type),
           s \in Adast!ParseResponse(packet, x, id, known)
    PROVE  /\ s.type # "ERROR" =>
                 /\ a = x /\ s.id = id /\ s.type = type /\ s.nozzle = nozzle /\ s.txn = 0
           /\ s.volume = 0 /\ s.id \in {a, id}
  <1> DEFINE t == Adast!Status(a, nozzle, type)
  <1>1. s = IF t.id = x THEN [t EXCEPT !.id = id] ELSE [t EXCEPT !.type = "ERROR"]
    BY DEF Adast!ParseResponse
  <1>2. /\ t.id = a /\ t.type = type /\ t.nozzle = nozzle /\ t.volume = 0 /\ t.txn = 0
        /\ t = [id |-> a, nozzle |-> nozzle, type |-> type,
                volume |-> 0, price |-> 0, txn |-> 0, amount |-> 0]
    BY DEF Adast!Status
  <1> HIDE DEF t
  <1>3. CASE a = x
    <2>1. s = [t EXCEPT !.id = id]
      BY <1>1, <1>2, <1>3
    <2> QED
      BY <1>2, <1>3, <2>1
  <1>4. CASE a # x
    <2>1. s = [t EXCEPT !.type = "ERROR"]
      BY <1>1, <1>2, <1>4
    <2> QED
      BY <1>2, <2>1
  <1> QED
    BY <1>3, <1>4

\* and of totals, from whichever pump.
LEMMA AdastParsesTotals ==
    ASSUME NEW packet, NEW x, NEW id, NEW known, NEW nozzle, NEW v, NEW s,
           Adast!At(packet, 4) = 66, Adast!At(packet, 5) = nozzle,
           Adast!Hundredths(packet, 6, 19) = v,
           s \in Adast!ParseResponse(packet, x, id, known)
    PROVE  /\ s.id = id /\ s.type = "TOTAL_RESPONSE" /\ s.nozzle = nozzle - 48
           /\ s.volume \in Adast!VolumeInMl(v)
  <1> DEFINE t == Adast!Status(id, nozzle - 48, "TOTAL_RESPONSE")
             sum == Adast!Hundredths(packet, 19, 32)
  <1>1. s \in Adast!ParseTotalsInfo(packet, id)
    BY DEF Adast!ParseResponse
  <1>2. PICK ml \in Adast!VolumeInMl(v) : s = [t EXCEPT !.volume = ml, !.amount = sum]
    BY <1>1, Zenon DEF Adast!ParseTotalsInfo
  <1>3. t = [id |-> id, nozzle |-> nozzle - 48, type |-> "TOTAL_RESPONSE",
             volume |-> 0, price |-> 0, txn |-> 0, amount |-> 0]
    BY DEF Adast!Status
  <1> HIDE DEF t, sum
  <1>4. /\ s.id = t.id /\ s.type = t.type /\ s.nozzle = t.nozzle /\ s.volume = ml
    BY <1>2, <1>3
  <1> QED
    BY <1>2, <1>3, <1>4

\* What the master keeps of the amounts of a sale.
LEMMA AdastKeeps ==
    ASSUME NEW packet, NEW a, NEW n, NEW kept, Adast!AddrOfPacket(packet) = a,
           Adast!At(packet, 4) \in {82, 97},
           Adast!FromLittleEndian(Adast!Reverse(Adast!Slice(packet, 5, 2))) = n
    PROVE  Adast!Remembered(packet, kept) = Put(kept, a, n)
  <1>1. Adast!Remembered(packet, kept) = Adast!Keep(a, n, kept)
    BY DEF Adast!Remembered
  <1> QED
    BY <1>1, Zenon DEF Adast!Keep, Put

\* Units of 10 ml.
LEMMA Tens ==
    ASSUME NEW v, NEW n, v \in Nat, v <= ShownVolume, v % 10 = 0, n = v \div 10
    PROVE  /\ n \in Nat /\ 10 * n = v
           /\ n \div 100 < 208000 /\ n \div 100 < 2147483648 /\ n \div 100 \in Nat
  <1>1. n \in Nat /\ 10 * n = v
    BY SMT
  <1>2. n <= 999999
    BY <1>1, SMT DEF ShownVolume
  <1>3. n \div 100 \in Nat /\ n \div 100 < 208000
    BY <1>1, <1>2, SMT
  <1> QED
    BY <1>1, <1>3, SMT

\* A volume in a packet, of seven or of thirteen characters, is read in units of 10 ml.
LEMMA AdastVolumeRead ==
    ASSUME NEW packet, NEW i, NEW e, NEW k, NEW v, NEW n, i \in Nat, Size(packet) \in Nat,
           v \in Nat, v <= ShownVolume, v % 10 = 0, n = v \div 10,
           k = 7 \/ k = 13, e = i + k, Has(packet, i, Text(n, k))
    PROVE  Adast!Hundredths(packet, i, e) = n
  <1>0. n \in Nat
    BY Tens
  <1>1. n \in Nat /\ n \div 100 < 208000 /\ n \div 100 < 2147483648 /\ n \div 100 \in Nat
    BY Tens
  <1>2. ASSUME NEW j, j \in 2..10, k = j + 3, FromDigits(Digits(n \div 100, j)) = n \div 100
        PROVE  Adast!Hundredths(packet, i, e) = n
    BY <1>0, <1>2, TextRead, ZenonT(120)
  <1>3. CASE k = 7
    <2>1. FromDigits(Digits(n \div 100, 4)) = n \div 100
      BY <1>1, DigitsReadBack
    <2>2. k = 4 + 3 /\ 4 \in 2..10
      BY <1>3
    <2> QED
      BY <1>2, <2>1, <2>2
  <1>4. CASE k = 13
    <2>1. FromDigits(Digits(n \div 100, 10)) = n \div 100
      BY <1>1, DigitsReadBack
    <2>2. k = 10 + 3 /\ 10 \in 2..10
      BY <1>4
    <2> QED
      BY <1>2, <2>1, <2>2
  <1> QED
    BY <1>3, <1>4

\* Half of 10 ml more, or 1 ml less than that.
LEMMA AdastMl ==
    ASSUME NEW v, NEW n, NEW ml, v \in Nat, v <= ShownVolume, v % 10 = 0, n = v \div 10,
           ml \in Adast!VolumeInMl(n)
    PROVE  ml \in Nat /\ ml - v \in {4, 5}
  <1>1. n \in Nat /\ 10 * n = v
    BY Tens
  <1> QED
    BY <1>1 DEF Adast!VolumeInMl

\* What the master reads of a reply, unless it takes it for an error.
AdastReads(s, a, x, id, type, nozzle, volume, txn) ==
    /\ s.type # "ERROR" =>
          /\ a = x \/ type = "TOTAL_RESPONSE"
          /\ s.id = id /\ s.type = type /\ s.nozzle = nozzle
          /\ s.volume - volume \in IF type \in {"HANGED_FREE", "REMOVED_WAITING"}
                                   THEN {0} ELSE {4, 5}
          /\ type \in SaleTypes => s.txn = txn
    /\ s.id \in {a, id} /\ s.volume \in Nat

\* The amounts of a sale.
LEMMA AdastSaleRead ==
    ASSUME NEW a, NEW packet, NEW x, NEW id, NEW known, NEW kept, NEW type, NEW nozzle,
           NEW volume, NEW price, NEW txn, NEW amount, NEW data, Size(packet) \in Nat,
           At(packet, 2) = a, Sensible(type, nozzle, volume, price, txn, amount),
           type \in SaleTypes, data = AdastData(type, nozzle, volume, price, txn, amount),
           Has(packet, 4, data)
    PROVE  /\ \A s \in Adast!ParseResponse(packet, x, id, known) :
                 AdastReads(s, a, x, id, type, nozzle, volume, txn)
           /\ Adast!Remembered(packet, kept) = Put(kept, a, txn)
  <1> DEFINE sale == AdastSale(nozzle, volume, price, txn, amount)
             code == IF type = "FUEL_SUPPLY" THEN 82 ELSE 97
             n == volume \div 10
             r == Reverse(LittleEndian(txn, 2))
             w == <<nozzle + 48, 49, 48>>
             t == Text(n, 7)
  <1>1. /\ volume \in Nat /\ volume <= ShownVolume /\ volume % 10 = 0
        /\ txn \in Nat /\ txn <= 100 /\ nozzle \in Int
    BY DEF Sensible
  <1>2. data = <<code>> \o sale
    BY DEF AdastData, SaleTypes
  <1>3. /\ sale = AdastSale(nozzle, volume, price, txn, amount) /\ n = volume \div 10
        /\ r = Reverse(LittleEndian(txn, 2)) /\ t = Text(n, 7)
    OBVIOUS
  <1>4. IsSequence(sale)
    <2>1. w = <<nozzle + 48, 49, 48>> /\ t = Text(volume \div 10, 7)
      OBVIOUS
    <2> HIDE DEF sale, r, w, t, n
    <2> QED
      BY <1>3, <2>1, AdastSaleParts
  <1>5. \/ code = 82 /\ type = "FUEL_SUPPLY"
        \/ code = 97 /\ type = "SUPPLY_DONE"
    BY DEF SaleTypes
  <1> HIDE DEF sale, code, r, n, w, t
  <1>6. At(packet, 4) = code /\ Has(packet, 5, sale)
    BY <1>2, <1>4, AdastCodeAt
  <1>7. Slice(packet, 5, 2) = r /\ At(packet, 7) = nozzle + 48 /\ Has(packet, 17, t)
    BY <1>3, <1>6, AdastSaleAt
  <1>8. Adast!Hundredths(packet, 17, 24) = n
    BY <1>1, <1>3, <1>7, AdastVolumeRead, 24 = 17 + 7, 17 \in Nat
  <1>9. FromLittleEndian(Reverse(r)) = txn
    BY <1>1, <1>3, NumberReversed
  <1>10. Adast!FromLittleEndian(Adast!Reverse(Adast!Slice(packet, 5, 2))) = txn
    BY <1>7, <1>9, AdastNumbers, AdastTexts
  <1>11. /\ Adast!At(packet, 4) = code /\ Adast!At(packet, 7) - 48 = nozzle
         /\ Adast!AddrOfPacket(packet) = a
    <2>1. /\ Adast!At(packet, 4) = code /\ Adast!At(packet, 7) = nozzle + 48
          /\ Adast!AddrOfPacket(packet) = a
      BY <1>6, <1>7, AdastNumbers DEF Adast!AddrOfPacket
    <2> QED
      BY <1>1, <2>1
  <1>12. Adast!Remembered(packet, kept) = Put(kept, a, txn)
    BY <1>5, <1>10, <1>11, AdastKeeps
  <1>13. ASSUME NEW s \in Adast!ParseResponse(packet, x, id, known)
         PROVE  /\ s.type # "ERROR" =>
                      /\ a = x /\ s.id = id /\ s.type = type /\ s.nozzle = nozzle
                      /\ s.txn = txn
                /\ s.volume \in Adast!VolumeInMl(n) /\ s.id \in {a, id}
    <2>1. \/ Adast!At(packet, 4) = 82 /\ type = "FUEL_SUPPLY"
          \/ Adast!At(packet, 4) = 97 /\ type = "SUPPLY_DONE"
      BY <1>5, <1>11
    <2>2. /\ s.type # "ERROR" =>
                /\ Adast!AddrOfPacket(packet) = x /\ s.id = id /\ s.type = type
                /\ s.nozzle = Adast!At(packet, 7) - 48
                /\ s.txn = Adast!FromLittleEndian(Adast!Reverse(Adast!Slice(packet, 5, 2)))
          /\ s.volume \in Adast!VolumeInMl(n) /\ s.id \in {Adast!AddrOfPacket(packet), id}
      BY <1>8, <1>13, <2>1, AdastParsesSale
    <2> QED
      BY <1>10, <1>11, <2>2
  <1>14. \A ml \in Adast!VolumeInMl(n) : ml - volume \in {4, 5} /\ ml \in Nat
    BY <1>1, <1>3, AdastMl
  <1>15. type \notin {"HANGED_FREE", "REMOVED_WAITING"}
    BY DEF SaleTypes
  <1> QED
    BY <1>12, <1>13, <1>14, <1>15 DEF AdastReads

\* The states of the nozzles.
LEMMA AdastStateRead ==
    ASSUME NEW a, NEW packet, NEW x, NEW id, NEW known, NEW kept, NEW type, NEW nozzle,
           NEW volume, NEW price, NEW txn, NEW amount, NEW data, Size(packet) \in Nat,
           At(packet, 2) = a, Sensible(type, nozzle, volume, price, txn, amount),
           type \in {"HANGED_FREE", "REMOVED_WAITING"},
           data = AdastData(type, nozzle, volume, price, txn, amount),
           Has(packet, 4, data)
    PROVE  /\ \A s \in Adast!ParseResponse(packet, x, id, known) :
                 AdastReads(s, a, x, id, type, nozzle, volume, txn)
           /\ Adast!Remembered(packet, kept) = kept
  <1> DEFINE start == <<74>>
             g == NozzleStates(type, nozzle)
  <1>1. /\ volume = 0 /\ type \notin SaleTypes
        /\ \/ type = "HANGED_FREE" /\ nozzle = 0
           \/ type = "REMOVED_WAITING" /\ nozzle \in 1..6
    BY DEF Sensible, SaleTypes
  <1>2. data = start \o g /\ start = << 74 >> /\ g = NozzleStates(type, nozzle)
    BY DEF AdastData
  <1>3. Adast!AddrOfPacket(packet) = a
    BY AdastNumbers DEF Adast!AddrOfPacket
  <1> HIDE DEF start, g
  <1>4. /\ Adast!At(packet, 4) = 74
        /\ Adast!ParseHangedFreeInfo(packet) =
              Adast!Status(Adast!AddrOfPacket(packet), nozzle, type)
    BY <1>1, <1>2, AdastStatusRead
  <1>5. ASSUME NEW s \in Adast!ParseResponse(packet, x, id, known)
        PROVE  /\ s.type # "ERROR" =>
                     /\ a = x /\ s.id = id /\ s.type = type /\ s.nozzle = nozzle
                     /\ s.txn = 0
               /\ s.volume = 0 /\ s.id \in {a, id}
    BY <1>3, <1>4, <1>5, AdastParsesStatus
  <1>6. Adast!Remembered(packet, kept) = kept
    BY <1>4 DEF Adast!Remembered
  <1> QED
    BY <1>1, <1>5, <1>6 DEF AdastReads

\* The totals.
LEMMA AdastTotalsRead ==
    ASSUME NEW a, NEW packet, NEW x, NEW id, NEW known, NEW kept, NEW type, NEW nozzle,
           NEW volume, NEW price, NEW txn, NEW amount, NEW data, Size(packet) \in Nat,
           Sensible(type, nozzle, volume, price, txn, amount), type = "TOTAL_RESPONSE",
           data = AdastData(type, nozzle, volume, price, txn, amount),
           Has(packet, 4, data)
    PROVE  /\ \A s \in Adast!ParseResponse(packet, x, id, known) :
                 AdastReads(s, a, x, id, type, nozzle, volume, txn)
           /\ Adast!Remembered(packet, kept) = kept
  <1> DEFINE n == volume \div 10
             t == Text(n, 13)
             e == nozzle + 48
  <1>1. /\ volume \in Nat /\ volume <= ShownVolume /\ volume % 10 = 0 /\ nozzle \in Int
    BY DEF Sensible
  <1>2. data = <<66, nozzle + 48>> \o Text(volume \div 10, 13) \o Text(amount, 13)
    BY DEF AdastData
  <1>3. n = volume \div 10 /\ t = Text(n, 13) /\ e - 48 = nozzle /\ e = nozzle + 48
    BY <1>1
  <1> HIDE DEF n, t, e
  <1>4. At(packet, 4) = 66 /\ At(packet, 5) = e /\ Has(packet, 6, t)
    <2>1. /\ At(packet, 4) = 66 /\ At(packet, 5) = nozzle + 48
          /\ Has(packet, 6, Text(volume \div 10, 13))
      BY <1>2, AdastTotalsAt
    <2> QED
      BY <1>3, <2>1
  <1>5. Adast!At(packet, 4) = 66 /\ Adast!At(packet, 5) = e
    BY <1>4, AdastNumbers
  <1>6. Adast!Hundredths(packet, 6, 19) = n
    <2>1. 19 = 6 + 13 /\ 6 \in Nat /\ Has(packet, 6, Text(n, 13))
      BY <1>3, <1>4
    <2> QED
      BY <1>1, <1>3, <2>1, AdastVolumeRead, ZenonT(60)
  <1>7. ASSUME NEW s \in Adast!ParseResponse(packet, x, id, known)
        PROVE  /\ s.id = id /\ s.type = "TOTAL_RESPONSE" /\ s.nozzle = e - 48
               /\ s.volume \in Adast!VolumeInMl(n)
    BY <1>5, <1>6, <1>7, AdastParsesTotals
  <1>8. \A ml \in Adast!VolumeInMl(n) : ml - volume \in {4, 5} /\ ml \in Nat
    BY <1>1, <1>3, AdastMl
  <1>9. Adast!Remembered(packet, kept) = kept
    BY <1>5 DEF Adast!Remembered
  <1> QED
    BY <1>3, <1>7, <1>8, <1>9 DEF AdastReads, SaleTypes

\* All that the master may read of what the pump at the address a meant.
AllRead(all, a, x, id, m) ==
    \A s \in all : AdastReads(s, a, x, id, m.type, m.nozzle, m.volume, m.txn)

\* The line reads a reply of Adast as it was meant, but for the rounding of the volume, and
\* keeps of it the number of a sale.
LEMMA AdastReceives ==
    ASSUME NEW p, NEW m, NEW packet, NEW sent, NEW x, NEW id, NEW known, NEW kept, p \in Pumps,
           "Adast" \in Protocols, MeantBy(p, m, "Adast"), sent = Adast!Says(m, Addr[p]),
           packet = sent \/ packet \in SpoiltPackets(sent), Adast!CheckCheckSum(packet)
    PROVE  /\ AllRead(Adast!ParseResponse(packet, x, id, known), Addr[p], x, id, m)
           /\ Adast!Remembered(packet, kept) =
                 IF m.type \in SaleTypes THEN Put(kept, Addr[p], m.txn) ELSE kept
  <1> DEFINE type == m.type
             nozzle == m.nozzle
             volume == m.volume
             price == m.price
             txn == m.txn
             amount == m.amount
             a == Addr[p]
             data == AdastData(type, nozzle, volume, price, txn, amount)
             all == Adast!ParseResponse(packet, x, id, known)
             put == Put(kept, a, txn)
             sold == type \in SaleTypes
  <1>1. Size(packet) \in Nat /\ At(packet, 2) = a /\ Has(packet, 4, data)
    BY AdastReceived
  <1>2. Sensible(type, nozzle, volume, price, txn, amount)
    BY DEF MeantBy
  <1>3. /\ data = AdastData(type, nozzle, volume, price, txn, amount)
        /\ all = Adast!ParseResponse(packet, x, id, known) /\ put = Put(kept, a, txn)
        /\ sold \in BOOLEAN /\ (sold <=> type \in SaleTypes)
    OBVIOUS
  <1>4. /\ type \in {"HANGED_FREE", "REMOVED_WAITING", "FUEL_SUPPLY", "SUPPLY_DONE",
                     "TOTAL_RESPONSE"}
        /\ type \in {"HANGED_FREE", "REMOVED_WAITING"} => type \notin SaleTypes
        /\ type = "TOTAL_RESPONSE" => type \notin SaleTypes
    BY <1>2 DEF Sensible, Types, SaleTypes
  <1> HIDE DEF type, nozzle, volume, price, txn, amount, a, data, all, put, sold
  <1>5. CASE type \in SaleTypes
    <2>1. /\ \A s \in all : AdastReads(s, a, x, id, type, nozzle, volume, txn)
          /\ Adast!Remembered(packet, kept) = put
      BY <1>1, <1>2, <1>3, <1>5, AdastSaleRead
    <2> QED
      BY <1>3, <1>5, <2>1
         DEF AllRead, type, nozzle, volume, price, txn, amount, a, all, put, sold
  <1>6. CASE type \in {"HANGED_FREE", "REMOVED_WAITING"}
    <2>1. /\ \A s \in all : AdastReads(s, a, x, id, type, nozzle, volume, txn)
          /\ Adast!Remembered(packet, kept) = kept
      BY <1>1, <1>2, <1>3, <1>6, AdastStateRead
    <2> QED
      BY <1>3, <1>4, <1>6, <2>1
         DEF AllRead, type, nozzle, volume, price, txn, amount, a, all, put, sold
  <1>7. CASE type = "TOTAL_RESPONSE"
    <2>1. /\ \A s \in all : AdastReads(s, a, x, id, type, nozzle, volume, txn)
          /\ Adast!Remembered(packet, kept) = kept
      BY <1>1, <1>2, <1>3, <1>7, AdastTotalsRead
    <2> QED
      BY <1>3, <1>4, <1>7, <2>1
         DEF AllRead, type, nozzle, volume, price, txn, amount, a, all, put, sold
  <1> QED
    BY <1>4, <1>5, <1>6, <1>7 DEF SaleTypes

\* Of a CLOSE_REPORT a pump hears the number that was kept, and no other pump hears it.
LEMMA AdastCloseHeard ==
    ASSUME NEW a, NEW kept, NEW n, a \in Int, n \in Nat, n <= 100, kept[a] = n,
           NEW b, b \in Int
    PROVE  Adast!Heard(Adast!CloseCommand(a, kept), b) =
               IF b = a THEN {[type |-> "CLOSE_REPORT", txn |-> n]} ELSE {}
  <1> DEFINE s == Reverse(LittleEndian(n, 2))
             start == <<76>>
             data == start \o s
             packet == Adast!Frame(a, 3, data)
  <1>1. Adast!CloseCommand(a, kept) = packet
    BY AdastNumbers, AdastTexts DEF Adast!CloseCommand
  <1>2. data = start \o s /\ start = <<76>> /\ packet = Adast!Frame(a, 3, data)
        /\ s = Reverse(LittleEndian(n, 2))
    OBVIOUS
  <1>3. IsSequence(start) /\ Size(start) = 1
    BY Tuples
  <1> HIDE DEF s, start, data, packet
  <1>4. IsSequence(s) /\ Size(s) = 2 /\ FromLittleEndian(Reverse(s)) = n
    BY <1>2, NumberReversed
  <1>5. Of2(data, start, s)
    <2>1. data = start \o s
      BY <1>2
    <2>2. IsSequence(start) /\ IsSequence(s)
      BY <1>3, <1>4
    <2> QED
      BY <2>1, <2>2, TwoParts
  <1>6. IsSequence(data) /\ Size(data) = 3
    BY <1>3, <1>4, <1>5 DEF Of2
  <1>7. /\ Has(packet, 2, <<a, 3>>) /\ Has(packet, 4, data) /\ Size(packet) = Size(data) + 7
        /\ Adast!CheckCheckSum(packet)
    BY <1>2, <1>6, AdastFramed
  <1>8. At(packet, 2) = a /\ At(packet, 2 + 1) = 3
    BY <1>7, TwoAt, 2 \in Nat
  <1>9. At(packet, 4) = 76 /\ Has(packet, 5, s)
    <2>1. Size(packet) \in Nat
      BY <1>6, <1>7
    <2>2. data = <<76>> \o s
      BY <1>2
    <2>3. IsSequence(s) /\ Has(packet, 4, data)
      BY <1>4, <1>7
    <2> QED
      BY <2>1, <2>2, <2>3, AdastCodeAt
  <1>10. Slice(packet, 5, 2) = s
    BY <1>4, <1>9, PartSliced, 5 \in Nat
  <1>11. /\ Adast!AddrOfPacket(packet) = a /\ Adast!At(packet, 3) = 3 /\ Adast!At(packet, 4) = 76
         /\ Len(packet) - 7 = 3
         /\ Adast!FromLittleEndian(Adast!Reverse(Adast!Slice(packet, 5, 2))) = n
    BY <1>4, <1>6, <1>7, <1>8, <1>9, <1>10, AdastNumbers, AdastTexts
       DEF Adast!AddrOfPacket, Size
  <1>12. CASE b = a
    <2> DEFINE k == Adast!FromLittleEndian(Adast!Reverse(Adast!Slice(packet, 5, 2)))
    <2>1. Adast!Heard(packet, b) = {[type |-> "CLOSE_REPORT", txn |-> k]}
      <3>1. /\ Adast!CheckCheckSum(packet) /\ Adast!AddrOfPacket(packet) = b
            /\ Adast!At(packet, 3) = Len(packet) - 7 /\ Adast!At(packet, 4) = 76
        BY <1>7, <1>11, <1>12
      <3> HIDE DEF k
      <3> QED
        BY <3>1, SMT DEF Adast!Heard, k
    <2> QED
      BY <1>1, <1>11, <1>12, <2>1
  <1>13. CASE b # a
    <2>1. Adast!Heard(packet, b) = {}
      BY <1>11, <1>13 DEF Adast!Heard
    <2> QED
      BY <1>1, <1>13, <2>1
  <1> QED
    BY <1>12, <1>13
-----------------------------------------------------------------------------
(***************************************************************************)
(* Shelf: what its master would read of the replies of its slave.          *)
(***************************************************************************)

\* A reply is framed as a request is.
LEMMA ShelfReplies ==
    ASSUME NEW a, NEW counter, NEW length, NEW data
    PROVE  Slave!Reply(a, counter, length, data) = Shelf!Request(a, counter, length, data)
  BY ShelfNumbers, SlaveNumbers DEF Slave!Reply, Shelf!Request, Shelf!Frame

\* The bits of a byte.
LEMMA Bits ==
    ASSUME NEW b, b \in Nat
    PROVE  /\ Shelf!Bit(b, 0) <=> b % 2 = 1
           /\ Shelf!Bit(b, 1) <=> (b \div 2) % 2 = 1
           /\ Shelf!Bit(b, 2) <=> (b \div 4) % 2 = 1
           /\ Shelf!Bit(b, 3) <=> (b \div 8) % 2 = 1
           /\ Shelf!Bit(b, 4) <=> (b \div 16) % 2 = 1
           /\ Shelf!Bit(b, 5) <=> (b \div 32) % 2 = 1
           /\ Shelf!Bit(b, 6) <=> (b \div 64) % 2 = 1
  BY SMT DEF Shelf!Bit

\* Powers of two.
LEMMA TwoTo ==
    2^1 = 2 /\ 2^2 = 4 /\ 2^3 = 8 /\ 2^4 = 16 /\ 2^5 = 32 /\ 2^6 = 64
  BY SMT

\* The lowest bit of a byte, or none.
LEMMA LowestBitIs ==
    ASSUME NEW b, NEW from, NEW n, from \in 0..1, n \in from..6, Shelf!Bit(b, n),
           \A k \in from..6 : Shelf!Bit(b, k) => n <= k
    PROVE  Shelf!LowestBit(b, from) = n
  <1> DEFINE Lowest(i) == Shelf!Bit(b, i) /\ \A k \in from..6 : Shelf!Bit(b, k) => i <= k
             x == CHOOSE i \in from..6 : Lowest(i)
  <1>1. n \in from..6 /\ Lowest(n)
    OBVIOUS
  <1>2. x \in from..6 /\ Lowest(x)
    BY <1>1
  <1>3. n <= x /\ x <= n
    BY <1>1, <1>2
  <1>4. x = n
    BY <1>2, <1>3
  <1>5. Shelf!LowestBit(b, from) = x
    BY DEF Shelf!LowestBit
  <1> QED
    BY <1>4, <1>5

\* The nozzle is the bit that was set for it, whether bit 0 is set or not,
LEMMA NozzleOfBit ==
    ASSUME NEW n, NEW b, n \in 1..6, b = 2^n \/ b = 1 + 2^n
    PROVE  Shelf!ResolveActiveNozzle(b) = n
  <1>1. n \in {1, 2, 3, 4, 5, 6}
    OBVIOUS
  <1> DEFINE p == 2^n
  <1>a. /\ n = 1 => p = 2
        /\ n = 2 => p = 4
        /\ n = 3 => p = 8
        /\ n = 4 => p = 16
        /\ n = 5 => p = 32
        /\ n = 6 => p = 64
    BY TwoTo, Zenon
  <1>b. b = p \/ b = 1 + p
    OBVIOUS
  <1> HIDE DEF p
  <1>2. \/ n = 1 /\ b \in {2, 3}
        \/ n = 2 /\ b \in {4, 5}
        \/ n = 3 /\ b \in {8, 9}
        \/ n = 4 /\ b \in {16, 17}
        \/ n = 5 /\ b \in {32, 33}
        \/ n = 6 /\ b \in {64, 65}
    BY <1>1, <1>a, <1>b
  <1>3. b \in Nat
    BY <1>2
  <1>4. Shelf!Bit(b, n) /\ \A k \in 1..6 : Shelf!Bit(b, k) => n <= k
    <2>1. Shelf!Bit(b, n)
      BY <1>2, <1>3, Bits
    <2>2. ASSUME NEW k \in 1..6, k < n PROVE ~Shelf!Bit(b, k)
      <3>1. k \in {1, 2, 3, 4, 5}
        BY <2>2
      <3> QED
        BY <1>2, <1>3, <2>2, <3>1, Bits
    <2> QED
      BY <2>1, <2>2
  <1>5. Shelf!LowestBit(b, 1) = n
    BY <1>4, LowestBitIs, 1 \in 0..1
  <1> QED
    BY <1>5 DEF Shelf!ResolveActiveNozzle

\* and with bit 0 alone no nozzle is up.
LEMMA NoNozzle == Shelf!ResolveActiveNozzle(1) = 0
  <1>1. \A k \in 1..6 : ~Shelf!Bit(1, k)
    BY Bits, 1 \in Nat
  <1> QED
    BY <1>1 DEF Shelf!ResolveActiveNozzle, Shelf!LowestBit

\* The states of a nozzle that is down and of one that is up, and what is read for
\* that of a sale which is running.
LEMMA NozzleStatesRead ==
    /\ Shelf!ResolveTrkState(32) = "HANGED_FREE"
    /\ Shelf!ResolveTrkState(33) = "REMOVED_WAITING"
    /\ Shelf!ResolveTrkState(143) = "REMOVED_WAITING"
  <1>1. Shelf!LowestBit(32, 0) = 5
    <2>1. Shelf!Bit(32, 5) /\ \A k \in 0..6 : Shelf!Bit(32, k) => 5 <= k
      BY Bits, 32 \in Nat
    <2> QED
      BY <2>1, LowestBitIs, 0 \in 0..1, 5 \in 0..6, Zenon
  <1>2. Shelf!LowestBit(33, 0) = 0
    <2>1. Shelf!Bit(33, 0) /\ \A k \in 0..6 : Shelf!Bit(33, k) => 0 <= k
      BY Bits, 33 \in Nat
    <2> QED
      BY <2>1, LowestBitIs, 0 \in 0..1, 0 \in 0..6, Zenon
  <1>3. Shelf!ResolveTrkState(32) = "HANGED_FREE"
    BY <1>1, SMT DEF Shelf!ResolveTrkState
  <1>4. Shelf!ResolveTrkState(33) = "REMOVED_WAITING"
    BY <1>2, SMT DEF Shelf!ResolveTrkState
  <1>5. Shelf!LowestBit(143, 0) = 0
    <2>1. Shelf!Bit(143, 0) /\ \A k \in 0..6 : Shelf!Bit(143, k) => 0 <= k
      BY Bits, 143 \in Nat
    <2> QED
      BY <2>1, LowestBitIs, 0 \in 0..1, 0 \in 0..6, Zenon
  <1>6. Shelf!ResolveTrkState(143) = "REMOVED_WAITING"
    BY <1>5, SMT DEF Shelf!ResolveTrkState
  <1> QED
    BY <1>3, <1>4, <1>6

\* What the master reads, by the code of the reply.
LEMMA ShelfParsesState ==
    ASSUME NEW packet, NEW id, NEW known, Shelf!At(packet, 4) = 129
    PROVE  LET r == Shelf!ParseResponse(packet, id, known)
           IN  /\ r.nozzle = Shelf!ResolveActiveNozzle(Shelf!At(packet, 5))
               /\ r.type = Shelf!ResolveTrkState(Shelf!At(packet, 6))
               /\ r.volume = 0
  <1> DEFINE nozzle == Shelf!ResolveActiveNozzle(Shelf!At(packet, 5))
             type == Shelf!ResolveTrkState(Shelf!At(packet, 6))
             s == Shelf!Status(0, nozzle, type)
             r == Shelf!ParseResponse(packet, id, known)
  <1>1. r = [s EXCEPT !.id = id]
    BY SMT DEF Shelf!ParseResponse
  <1>2. s = [id |-> 0, nozzle |-> nozzle, type |-> type, volume |-> 0, price |-> 0, txn |-> 0,
             amount |-> 0]
    BY DEF Shelf!Status
  <1> HIDE DEF nozzle, type, s, r
  <1>3. r.nozzle = nozzle /\ r.type = type /\ r.volume = 0
    BY <1>1, <1>2
  <1> QED
    BY <1>3 DEF nozzle, type, r

\* Amounts,
LEMMA ShelfParsesAmounts ==
    ASSUME NEW packet, NEW id, NEW known, NEW code, code = Shelf!At(packet, 4),
           code \in {132, 147}
    PROVE  LET r == Shelf!ParseResponse(packet, id, known)
           IN  /\ r.type = IF code = 132 THEN Shelf!ResolveTrkState(Shelf!At(packet, 6))
                           ELSE "SUPPLY_DONE"
               /\ r.nozzle = Shelf!ResolveActiveNozzle(Shelf!At(packet, 5))
               /\ r.volume = 10 * Shelf!FromLittleEndian(Shelf!Slice(packet, 9, 3))
  <1> DEFINE nozzle == Shelf!ResolveActiveNozzle(Shelf!At(packet, 5))
             trkState == Shelf!ResolveTrkState(Shelf!At(packet, 6))
             type == IF code = 132 THEN trkState ELSE "SUPPLY_DONE"
             volume == 10 * Shelf!FromLittleEndian(Shelf!Slice(packet, 9, 3))
             a == Shelf!At(packet, 1)
             s == Shelf!Status(a, nozzle, type)
             t == Shelf!Amounts(packet, type, known)
             r == Shelf!ParseResponse(packet, id, known)
  <1>1. r = [t EXCEPT !.id = id]
    <2>1. CASE code = 132
      BY <2>1, SMT DEF Shelf!ParseResponse
    <2>2. CASE code = 147
      BY <2>2, SMT DEF Shelf!ParseResponse
    <2> QED
      BY <2>1, <2>2
  <1> DEFINE price == IF a \in DOMAIN known THEN known[a]
                      ELSE IF a + nozzle \in DOMAIN known THEN known[a + nozzle]
                      ELSE 0
             amount == Shelf!Sum(volume, price)
  <1>2. t = [s EXCEPT !.volume = volume, !.price = price, !.amount = amount]
    BY Zenon DEF Shelf!Amounts
  <1>3. s = [id |-> a, nozzle |-> nozzle, type |-> type, volume |-> 0, price |-> 0, txn |-> 0,
             amount |-> 0]
    BY DEF Shelf!Status
  <1> HIDE DEF nozzle, trkState, type, volume, a, s, t, r, price, amount
  <1>5. t = [id |-> a, nozzle |-> nozzle, type |-> type, volume |-> volume, price |-> price,
             txn |-> 0, amount |-> amount]
    BY <1>2, <1>3
  <1>6. r.nozzle = nozzle /\ r.volume = volume /\ r.type = type
    BY <1>1, <1>5
  <1> QED
    BY <1>6 DEF nozzle, volume, r, type, trkState

\* and totals.
LEMMA ShelfParsesTotals ==
    ASSUME NEW packet, NEW id, NEW known, Shelf!At(packet, 4) = 160
    PROVE  LET r == Shelf!ParseResponse(packet, id, known)
           IN  /\ r.type = "TOTAL_RESPONSE"
               /\ r.nozzle = Shelf!ResolveActiveNozzle(Shelf!At(packet, 5))
               /\ r.volume = 10 * Shelf!FromLittleEndian(Shelf!Slice(packet, 5, 4))
  <1> DEFINE nozzle == Shelf!ResolveActiveNozzle(Shelf!At(packet, 5))
             volume == 10 * Shelf!FromLittleEndian(Shelf!Slice(packet, 5, 4))
             s == Shelf!Status(0, nozzle, "TOTAL_RESPONSE")
             t == [s EXCEPT !.volume = volume]
             r == Shelf!ParseResponse(packet, id, known)
  <1>1. r = [t EXCEPT !.id = id]
    BY SMT DEF Shelf!ParseResponse
  <1>2. s = [id |-> 0, nozzle |-> nozzle, type |-> "TOTAL_RESPONSE", volume |-> 0, price |-> 0,
             txn |-> 0, amount |-> 0]
    BY DEF Shelf!Status
  <1>3. t = [s EXCEPT !.volume = volume]
    OBVIOUS
  <1> HIDE DEF nozzle, volume, s, t, r
  <1>4. t = [id |-> 0, nozzle |-> nozzle, type |-> "TOTAL_RESPONSE", volume |-> volume,
             price |-> 0, txn |-> 0, amount |-> 0]
    BY <1>2, <1>3
  <1>5. r.type = "TOTAL_RESPONSE" /\ r.nozzle = nozzle /\ r.volume = volume
    BY <1>1, <1>4
  <1> QED
    BY <1>5 DEF nozzle, volume, r

\* A reply of the slave has its data behind the fourth byte,
LEMMA ShelfReplied ==
    ASSUME NEW packet, NEW a, NEW counter, NEW length, NEW data, NEW n, IsSequence(data),
           n \in Nat, n >= 1, Size(data) = n, packet = Slave!Reply(a, counter, length, data)
    PROVE  Has(packet, 4, data) /\ Size(packet) = n + 6 /\ Size(packet) \in Nat
  <1>1. packet = Shelf!Request(a, counter, length, data)
    BY ShelfReplies
  <1>2. Size(data) >= 1
    OBVIOUS
  <1>3. Has(packet, 4, data)
    BY <1>1, <1>2, ShelfFramed
  <1>4. Size(packet) = n + 6
    BY <1>1, ShelfRequestSize
  <1> QED
    BY <1>3, <1>4

\* in two parts.
LEMMA ShelfRepliedParts ==
    ASSUME NEW packet, NEW a, NEW counter, NEW length, NEW data, NEW start, NEW d, NEW i, NEW n,
           IsSequence(start), IsSequence(d), i \in Nat, n \in Nat, i >= 1, Size(start) = i,
           Size(d) = n, data = start \o d, packet = Slave!Reply(a, counter, length, data)
    PROVE  Has(packet, 4, start) /\ Has(packet, 4 + i, d)
  <1>1. Of2(data, start, d)
    BY TwoParts
  <1>2. /\ IsSequence(data) /\ Size(data) = i + n /\ Has(data, 0, start) /\ Has(data, i, d)
        /\ i + n \in Nat /\ i + n >= 1
    BY <1>1 DEF Of2
  <1>3. Has(packet, 4, data) /\ Size(packet) \in Nat
    BY <1>2, ShelfReplied
  <1>4. Has(packet, 4 + 0, start) /\ Has(packet, 4 + i, d)
    BY <1>2, <1>3, PartOfPart, 0 \in Nat, 4 \in Nat
  <1> QED
    BY <1>4, 4 + 0 = 4

\* What the slave says of a nozzle that is down or up,
LEMMA ShelfStateAt ==
    ASSUME NEW packet, NEW a, NEW counter, NEW x, NEW y,
           packet = Slave!Reply(a, counter, 9, <<129, x, y>>)
    PROVE  At(packet, 4) = 129 /\ At(packet, 5) = x /\ At(packet, 6) = y
  <1>1. IsSequence(<<129, x, y>>) /\ Size(<<129, x, y>>) = 3
    BY Tuples
  <1>2. Has(packet, 4, <<129, x, y>>)
    BY <1>1, ShelfReplied, 3 \in Nat, 3 >= 1
  <1> QED
    BY <1>2, ThreeAt, 4 \in Nat, 4 + 1 = 5, 4 + 2 = 6

\* of a sale that is running,
LEMMA ShelfAmountsAt ==
    ASSUME NEW packet, NEW a, NEW counter, NEW x, NEW n,
           packet = Slave!Reply(a, counter, 14, <<132, x, 143, 2, a>> \o LittleEndian(n, 3))
    PROVE  /\ At(packet, 4) = 132 /\ At(packet, 5) = x /\ At(packet, 6) = 143
           /\ Slice(packet, 9, 3) = LittleEndian(n, 3)
  <1> DEFINE start == <<132, x, 143, 2, a>>
             d == LittleEndian(n, 3)
  <1>1. IsSequence(start) /\ Size(start) = 5
    BY Tuples
  <1>2. IsSequence(d) /\ Size(d) = 3
    BY LittleEndianIsSequence, 3 \in 2..4
  <1>3. packet = Slave!Reply(a, counter, 14, start \o d)
    OBVIOUS
  <1> HIDE DEF start, d
  <1>4. Has(packet, 4, start) /\ Has(packet, 4 + 5, d)
    BY <1>1, <1>2, <1>3, ShelfRepliedParts, 3 \in Nat, 5 \in Nat, 5 >= 1
  <1>5. Slice(packet, 9, 3) = d
    BY <1>2, <1>4, PartSliced, 9 \in Nat, 4 + 5 = 9
  <1>6. Has(packet, 4, <<132, x, 143, 2, a>>)
    BY <1>4 DEF start
  <1>7. At(packet, 4) = 132 /\ At(packet, 5) = x /\ At(packet, 6) = 143
    BY <1>6, FiveAt, 4 \in Nat, 4 + 1 = 5, 4 + 2 = 6
  <1> QED
    BY <1>5, <1>7 DEF d

\* and of its totals.
LEMMA ShelfTotalsAt ==
    ASSUME NEW packet, NEW a, NEW counter, NEW n,
           packet = Slave!Reply(a, counter, 11, << 160 >> \o LittleEndian(n, 4))
    PROVE  /\ At(packet, 4) = 160 /\ Slice(packet, 5, 4) = LittleEndian(n, 4)
           /\ At(packet, 5) = LittleEndian(n, 4)[1]
  <1> DEFINE start == << 160 >>
             d == LittleEndian(n, 4)
  <1>1. IsSequence(start) /\ Size(start) = 1
    BY Tuples
  <1>2. IsSequence(d) /\ Size(d) = 4
    BY LittleEndianIsSequence, 4 \in 2..4
  <1>3. packet = Slave!Reply(a, counter, 11, start \o d)
    OBVIOUS
  <1> HIDE DEF start, d
  <1>4. Has(packet, 4, start) /\ Has(packet, 4 + 1, d)
    BY <1>1, <1>2, <1>3, ShelfRepliedParts, 1 \in Nat, 4 \in Nat, 1 >= 1
  <1>5. Slice(packet, 5, 4) = d
    BY <1>2, <1>4, PartSliced, 5 \in Nat, 4 + 1 = 5
  <1>6. Has(packet, 4, << 160 >>)
    BY <1>4 DEF start
  <1>7. At(packet, 4) = 160
    BY <1>6, OneAt, 4 \in Nat, SMTT(30)
  <1>8. At(packet, 5) = d[1]
    <2>1. Has(packet, 5, d)
      BY <1>4, 4 + 1 = 5
    <2>2. packet[5 + 1] = d[1]
      BY <1>2, <2>1, SMT DEF Has
    <2> QED
      BY <2>2 DEF At
  <1> QED
    BY <1>5, <1>7, <1>8 DEF d

\* Of a sale that is done: three bytes, the volume, the amount and the price.
LEMMA ShelfEndAt ==
    ASSUME NEW packet, NEW a, NEW counter, NEW n, NEW s, NEW q,
           packet = Slave!Reply(a, counter, 17, <<147, 1, 129>> \o LittleEndian(n, 3)
                                                \o LittleEndian(s, 3) \o LittleEndian(q, 2))
    PROVE  /\ At(packet, 4) = 147 /\ At(packet, 5) = 1
           /\ Slice(packet, 9, 3) = <<LittleEndian(n, 3)[3], LittleEndian(s, 3)[1],
                                      LittleEndian(s, 3)[2]>>
  <1> DEFINE start == <<147, 1, 129>>
             v == LittleEndian(n, 3)
             w == LittleEndian(s, 3)
             u == LittleEndian(q, 2)
             data == start \o v \o w \o u
  <1>1. IsSequence(start) /\ Size(start) = 3
    BY Tuples
  <1>2. /\ IsSequence(v) /\ Size(v) = 3 /\ IsSequence(w) /\ Size(w) = 3
        /\ IsSequence(u) /\ Size(u) = 2
    BY LittleEndianIsSequence, 3 \in 2..4, 2 \in 2..4
  <1>3. packet = Slave!Reply(a, counter, 17, data) /\ data = start \o v \o w \o u
    OBVIOUS
  <1> HIDE DEF start, v, w, u, data
  <1>4. Of4(data, start, v, w, u)
    BY <1>1, <1>2, <1>3, FourParts
  <1>5. /\ IsSequence(data) /\ Size(data) = 11
        /\ Has(data, 0, start) /\ Has(data, 3, v) /\ Has(data, 6, w)
    BY <1>1, <1>2, <1>4, SMT DEF Of4
  <1>6. Has(packet, 4, data) /\ Size(packet) \in Nat
    BY <1>3, <1>5, ShelfReplied, 11 \in Nat, 11 >= 1
  <1>7. Has(packet, 4 + 0, start) /\ Has(packet, 4 + 3, v) /\ Has(packet, 4 + 6, w)
    BY <1>1, <1>2, <1>5, <1>6, PartOfPart, 0 \in Nat, 3 \in Nat, 4 \in Nat, 6 \in Nat
  <1>8. Has(packet, 4, start) /\ Has(packet, 7, v) /\ Has(packet, 10, w)
    BY <1>7, 4 + 0 = 4, 4 + 3 = 7, 4 + 6 = 10
  <1>9. At(packet, 4) = 147 /\ At(packet, 5) = 1
    <2>1. Has(packet, 4, <<147, 1, 129>>)
      BY <1>8 DEF start
    <2> QED
      BY <2>1, ThreeAt, 4 \in Nat, 4 + 1 = 5
  <1>10. packet[9 + 1] = v[3] /\ packet[9 + 2] = w[1] /\ packet[9 + 3] = w[2]
    <2>1. packet[7 + 3] = v[3]
      BY <1>2, <1>8, SMT DEF Has
    <2>2. packet[10 + 1] = w[1] /\ packet[10 + 2] = w[2]
      BY <1>2, <1>8, SMT DEF Has
    <2> QED
      BY <2>1, <2>2
  <1>11. Slice(packet, 9, 3) = <<v[3], w[1], w[2]>>
    <2> DEFINE t == <<v[3], w[1], w[2]>>
    <2>1. IsSequence(t) /\ Size(t) = 3 /\ t[1] = v[3] /\ t[2] = w[1] /\ t[3] = w[2]
      BY Tuples
    <2> HIDE DEF t
    <2>2. 9 + 3 <= Size(packet)
      BY <1>2, <1>6, <1>8, SMT DEF Has
    <2>3. \A i \in 1..3 : packet[9 + i] = t[i]
      BY <1>10, <2>1, SMT
    <2>4. Has(packet, 9, t)
      BY <2>1, <2>2, <2>3, Zenon DEF Has
    <2>5. Slice(packet, 9, 3) = t
      BY <2>1, <2>4, PartSliced, 9 \in Nat
    <2> QED
      BY <2>5 DEF t
  <1> QED
    BY <1>9, <1>11 DEF v, w

\* The bytes of a number.
LEMMA BytesOfNumber ==
    ASSUME NEW n, n \in Nat
    PROVE  /\ LittleEndian(n, 4)[1] = n % 256
           /\ LittleEndian(n, 3)[1] = n % 256
           /\ LittleEndian(n, 3)[2] = (n \div 256) % 256
           /\ n < 16777216 => LittleEndian(n, 3)[3] = n \div 65536
  <1>1. 256^0 = 1 /\ 256^1 = 256 /\ 256^2 = 65536
    BY SMT
  <1>2. /\ LittleEndian(n, 4)[1] = (n \div 256^(1 - 1)) % 256
        /\ LittleEndian(n, 3)[1] = (n \div 256^(1 - 1)) % 256
        /\ LittleEndian(n, 3)[2] = (n \div 256^(2 - 1)) % 256
        /\ LittleEndian(n, 3)[3] = (n \div 256^(3 - 1)) % 256
    BY DEF LittleEndian
  <1> DEFINE p == 256^(1 - 1)
             q == 256^(2 - 1)
             r == 256^(3 - 1)
  <1>3. p = 1 /\ q = 256 /\ r = 65536
    BY <1>1, SMT
  <1>4. /\ LittleEndian(n, 4)[1] = (n \div p) % 256
        /\ LittleEndian(n, 3)[1] = (n \div p) % 256
        /\ LittleEndian(n, 3)[2] = (n \div q) % 256
        /\ LittleEndian(n, 3)[3] = (n \div r) % 256
    BY <1>2
  <1> HIDE DEF p, q, r
  <1>5. /\ LittleEndian(n, 4)[1] = (n \div 1) % 256
        /\ LittleEndian(n, 3)[1] = (n \div 1) % 256
        /\ LittleEndian(n, 3)[2] = (n \div 256) % 256
        /\ LittleEndian(n, 3)[3] = (n \div 65536) % 256
    BY <1>3, <1>4
  <1>6. n \div 1 = n /\ (n < 16777216 => (n \div 65536) % 256 = n \div 65536)
    BY SMT
  <1> QED
    BY <1>5, <1>6

\* The master would read of a reply what ShelfReadAs says.
ReadAsSaid(r, m) ==
    r.type = ShelfReadAs(m).type /\ r.nozzle = ShelfReadAs(m).nozzle
    /\ r.volume = ShelfReadAs(m).volume

\* So it is with every reply.
LEMMA ShelfReplyRead ==
    ASSUME NEW p, NEW m, NEW packet, NEW a, NEW counter, NEW id, NEW known,
           MeantBy(p, m, "Shelf"), packet = Slave!PreparePacketVec(m, a, counter)
    PROVE  ReadAsSaid(Shelf!ParseResponse(packet, id, known), m)
  <1> DEFINE r == Shelf!ParseResponse(packet, id, known)
             n == m.volume \div 10
  <1>1. /\ m.type \in Types /\ m.nozzle \in 0..6 /\ m.volume \in Nat /\ m.volume <= ShownVolume
        /\ m.volume % 10 = 0
        /\ IF m.type = "HANGED_FREE" THEN m.nozzle = 0 ELSE m.nozzle >= 1
    BY DEF MeantBy, Sensible
  <1>2. n \in Nat /\ 10 * n = m.volume
    BY <1>1, Tens
  <1>3. FromLittleEndian(LittleEndian(n, 3)) = n /\ FromLittleEndian(LittleEndian(n, 4)) = n
    <2> HIDE DEF n
    <2>1. n < 16777216 /\ n < 2147483648
      BY <1>1, <1>2, SMT DEF ShownVolume
    <2> QED
      BY <1>2, <2>1, BytesReadBack, SMT
  <1>4. CASE m.type = "HANGED_FREE"
    <2>1. packet = Slave!Reply(a, counter, 9, <<129, 1, 32>>)
      BY <1>4, SMT DEF Slave!PreparePacketVec, Slave!ResponseHangedFree
    <2>2. At(packet, 4) = 129 /\ At(packet, 5) = 1 /\ At(packet, 6) = 32
      BY <2>1, ShelfStateAt
    <2>3. /\ Shelf!At(packet, 4) = 129 /\ Shelf!At(packet, 5) = 1 /\ Shelf!At(packet, 6) = 32
      BY <2>2, ShelfNumbers
    <2>4. r.nozzle = 0 /\ r.type = "HANGED_FREE" /\ r.volume = 0
      BY <2>3, ShelfParsesState, NoNozzle, NozzleStatesRead
    <2>5. ShelfReadAs(m) = [type |-> m.type, nozzle |-> m.nozzle, volume |-> 0]
      BY <1>4, SMT DEF ShelfReadAs
    <2> HIDE DEF r
    <2>6. ReadAsSaid(r, m)
      BY <1>1, <1>4, <2>4, <2>5, SMT DEF ReadAsSaid
    <2> QED
      BY <2>6 DEF r
  <1>5. CASE m.type = "REMOVED_WAITING"
    <2> DEFINE x == 1 + 2^m.nozzle
    <2>0. m.nozzle \in 1..6
      BY <1>1, <1>5
    <2>1. packet = Slave!Reply(a, counter, 9, <<129, x, 33>>)
      BY <1>5, Zenon DEF Slave!PreparePacketVec, Slave!ResponseRemovedNozzle
    <2>2. Shelf!ResolveActiveNozzle(x) = m.nozzle
      BY <2>0, NozzleOfBit
    <2> HIDE DEF x
    <2>3. At(packet, 4) = 129 /\ At(packet, 5) = x /\ At(packet, 6) = 33
      BY <2>1, ShelfStateAt
    <2>4. Shelf!At(packet, 4) = 129 /\ Shelf!At(packet, 5) = x /\ Shelf!At(packet, 6) = 33
      BY <2>3, ShelfNumbers
    <2>5. r.nozzle = m.nozzle /\ r.type = "REMOVED_WAITING" /\ r.volume = 0
      BY <2>2, <2>4, ShelfParsesState, NozzleStatesRead
    <2>6. ShelfReadAs(m) = [type |-> m.type, nozzle |-> m.nozzle, volume |-> 0]
      BY <1>5, SMT DEF ShelfReadAs
    <2> HIDE DEF r
    <2>7. ReadAsSaid(r, m)
      BY <1>5, <2>5, <2>6, SMT DEF ReadAsSaid
    <2> QED
      BY <2>7 DEF r
  <1>6. CASE m.type = "FUEL_SUPPLY"
    <2> DEFINE x == 2^m.nozzle
    <2>0. m.nozzle \in 1..6
      BY <1>1, <1>6
    <2>1. packet = Slave!Reply(a, counter, 14, <<132, x, 143, 2, a>> \o LittleEndian(n, 3))
      <3>1. packet = Slave!ResponseAmountInfo(m, a, counter)
        BY <1>6, Zenon DEF Slave!PreparePacketVec
      <3>2. packet = Slave!Reply(a, counter, 14,
                                 <<132, x, 143, 2, a>> \o Slave!LittleEndian(n, 3))
        BY <3>1, Zenon DEF Slave!ResponseAmountInfo
      <3> QED
        BY <3>2, SlaveNumbers, Zenon
    <2>2. Shelf!ResolveActiveNozzle(x) = m.nozzle
      BY <2>0, NozzleOfBit
    <2> HIDE DEF x, n
    <2>3. /\ At(packet, 4) = 132 /\ At(packet, 5) = x /\ At(packet, 6) = 143
          /\ Slice(packet, 9, 3) = LittleEndian(n, 3)
      BY <2>1, ShelfAmountsAt
    <2>4. /\ Shelf!At(packet, 4) = 132 /\ Shelf!At(packet, 5) = x /\ Shelf!At(packet, 6) = 143
          /\ Shelf!FromLittleEndian(Shelf!Slice(packet, 9, 3)) = n
      BY <1>3, <2>3, ShelfNumbers
    <2>5. r.nozzle = m.nozzle /\ r.volume = 10 * n /\ r.type = "REMOVED_WAITING"
      BY <2>2, <2>4, ShelfParsesAmounts, NozzleStatesRead, 132 \in {132, 147}
    <2>6. ShelfReadAs(m) = [type |-> "REMOVED_WAITING", nozzle |-> m.nozzle, volume |-> m.volume]
      BY <1>6, SMT DEF ShelfReadAs
    <2> HIDE DEF r
    <2>7. ReadAsSaid(r, m)
      BY <1>2, <1>6, <2>5, <2>6, SMT DEF ReadAsSaid
    <2> QED
      BY <2>7 DEF r
  <1>7. CASE m.type = "TOTAL_RESPONSE"
    <2>1. packet = Slave!Reply(a, counter, 11, << 160 >> \o LittleEndian(n, 4))
      <3>1. packet = Slave!ResponseTotalInfo(m, a, counter)
        BY <1>7, Zenon DEF Slave!PreparePacketVec
      <3>2. packet = Slave!Reply(a, counter, 11, << 160 >> \o Slave!LittleEndian(n, 4))
        BY <3>1, Zenon DEF Slave!ResponseTotalInfo
      <3> QED
        BY <3>2, SlaveNumbers, Zenon
    <2> HIDE DEF n
    <2>2. /\ At(packet, 4) = 160 /\ Slice(packet, 5, 4) = LittleEndian(n, 4)
          /\ At(packet, 5) = n % 256
      BY <1>2, <2>1, ShelfTotalsAt, BytesOfNumber
    <2>3. /\ Shelf!At(packet, 4) = 160 /\ Shelf!At(packet, 5) = n % 256
          /\ Shelf!FromLittleEndian(Shelf!Slice(packet, 5, 4)) = n
      BY <1>3, <2>2, ShelfNumbers
    <2>4. /\ r.type = "TOTAL_RESPONSE" /\ r.volume = 10 * n
          /\ r.nozzle = Shelf!ResolveActiveNozzle(n % 256)
      BY <2>3, ShelfParsesTotals
    <2>5. ShelfReadAs(m) = [type |-> "TOTAL_RESPONSE",
                            nozzle |-> Shelf!ResolveActiveNozzle(n % 256),
                            volume |-> m.volume]
      BY <1>7, SMT DEF ShelfReadAs, n
    <2> HIDE DEF r
    <2>6. ReadAsSaid(r, m)
      BY <1>2, <1>7, <2>4, <2>5, SMT DEF ReadAsSaid
    <2> QED
      BY <2>6 DEF r
  <1>8. CASE m.type = "SUPPLY_DONE"
    <2> DEFINE s == m.amount
               x == LittleEndian(n, 3)
               y == LittleEndian(s, 3)
               misplaced == <<n \div 65536, s % 256, (s \div 256) % 256>>
    <2>1. packet = Slave!Reply(a, counter, 17, <<147, 1, 129>> \o LittleEndian(n, 3)
                                               \o LittleEndian(s, 3) \o LittleEndian(m.price, 2))
      <3>1. packet = Slave!ResponseSupplyDone(m, a, counter)
        BY <1>8, Zenon DEF Slave!PreparePacketVec
      <3>2. packet = Slave!Reply(a, counter, 17,
                                 <<147, 1, 129>> \o Slave!LittleEndian(n, 3)
                                 \o Slave!LittleEndian(s, 3) \o Slave!LittleEndian(m.price, 2))
        BY <3>1, Zenon DEF Slave!ResponseSupplyDone
      <3> QED
        BY <3>2, SlaveNumbers, Zenon
    <2>2. s \in Nat
      BY DEF MeantBy, Sensible
    <2>3. n < 16777216
      BY <1>1, <1>2, SMT DEF ShownVolume
    <2>4. ShelfReadAs(m) = [type |-> "SUPPLY_DONE", nozzle |-> 0,
                            volume |-> 10 * FromLittleEndian(misplaced)]
      BY <1>8, SMT DEF ShelfReadAs
    <2> HIDE DEF n, s
    <2>5. /\ At(packet, 4) = 147 /\ At(packet, 5) = 1
          /\ Slice(packet, 9, 3) = <<x[3], y[1], y[2]>>
      BY <2>1, ShelfEndAt
    <2>6. x[3] = n \div 65536 /\ y[1] = s % 256 /\ y[2] = (s \div 256) % 256
      BY <1>2, <2>2, <2>3, BytesOfNumber
    <2>7. Slice(packet, 9, 3) = misplaced
      BY <2>5, <2>6
    <2> HIDE DEF x, y, misplaced
    <2>8. /\ Shelf!At(packet, 4) = 147 /\ Shelf!At(packet, 5) = 1
          /\ Shelf!FromLittleEndian(Shelf!Slice(packet, 9, 3)) = FromLittleEndian(misplaced)
      BY <2>5, <2>7, ShelfNumbers
    <2>9. /\ r.type = "SUPPLY_DONE" /\ r.nozzle = 0
          /\ r.volume = 10 * FromLittleEndian(misplaced)
      BY <2>8, ShelfParsesAmounts, NoNozzle, 147 \in {132, 147}, 147 # 132
    <2> HIDE DEF r
    <2>10. ReadAsSaid(r, m)
      BY <2>4, <2>9, SMT DEF ReadAsSaid
    <2> QED
      BY <2>10 DEF r
  <1> QED
    BY <1>1, <1>4, <1>5, <1>6, <1>7, <1>8 DEF Types

-----------------------------------------------------------------------------
(***************************************************************************)
(* What the pumps say is bytes.                                            *)
(***************************************************************************)

\* What is put into a packet is bytes.
OfBytes(s) == s \in Seq(Byte)

\* A sequence of bytes is a sequence.
LEMMA BytesAreSequence ==
    ASSUME NEW s, OfBytes(s) PROVE IsSequence(s)
  BY DEF OfBytes, IsSequence

\* Bytes joined are bytes.
LEMMA BytesJoin ==
    ASSUME NEW s, NEW t, OfBytes(s), OfBytes(t) PROVE OfBytes(s \o t)
  <1> DEFINE S == Byte
  <1>1. s \in Seq(S) /\ t \in Seq(S)
    BY DEF OfBytes
  <1> HIDE DEF S
  <1>2. s \o t \in Seq(S)
    BY <1>1
  <1> QED
    BY <1>2 DEF S, OfBytes

\* Tuples of bytes.
LEMMA TuplesOfBytes ==
    /\ \A a \in Byte : OfBytes(<<a>>)
    /\ \A a, b \in Byte : OfBytes(<<a, b>>)
    /\ \A a, b, c \in Byte : OfBytes(<<a, b, c>>)
  <1> DEFINE S == Byte
  <1> HIDE DEF S
  <1>1. \A a \in S : <<a>> \in Seq(S)
    OBVIOUS
  <1>2. \A a, b \in S : <<a, b>> \in Seq(S)
    OBVIOUS
  <1>3. \A a, b, c \in S : <<a, b, c>> \in Seq(S)
    OBVIOUS
  <1> QED
    BY <1>1, <1>2, <1>3 DEF S, OfBytes

\* Longer ones.
LEMMA LongTuplesOfBytes ==
    /\ \A a, b, c, d \in Byte : OfBytes(<<a, b, c, d>>)
    /\ \A a, b, c, d, e \in Byte : OfBytes(<<a, b, c, d, e>>)
  <1> DEFINE S == Byte
  <1> HIDE DEF S
  <1>1. \A a, b, c, d \in S : <<a, b, c, d>> \in Seq(S)
    OBVIOUS
  <1>2. \A a, b, c, d, e \in S : <<a, b, c, d, e>> \in Seq(S)
    OBVIOUS
  <1> QED
    BY <1>1, <1>2 DEF S, OfBytes

\* Numbers.
LEMMA NumbersOfBytes ==
    ASSUME NEW n, NEW k, n \in Nat
    PROVE  /\ k \in 2..10 => OfBytes(Digits(n, k))
           /\ k \in 2..4 => OfBytes(LittleEndian(n, k))
  BY DigitsAreBytes, LittleEndianAreBytes DEF OfBytes

\* What gives a byte for each of the places of a sequence.
LEMMA FunctionOfBytes ==
    ASSUME NEW f, NEW n, n \in Nat, f = [i \in 1..n |-> f[i]], \A i \in 1..n : f[i] \in Byte
    PROVE  OfBytes(f)
  <1> DEFINE S == Byte
  <1>1. \A i \in 1..n : f[i] \in S
    OBVIOUS
  <1> HIDE DEF S
  <1>2. f \in Seq(S)
    BY <1>1
  <1> QED
    BY <1>2 DEF S, OfBytes

\* A byte repeated.
LEMMA RepeatOfBytes ==
    ASSUME NEW b, NEW k, b \in Byte, k \in Nat PROVE OfBytes(Repeat(b, k))
  <1> DEFINE f == Repeat(b, k)
  <1>1. f = [i \in 1..k |-> f[i]] /\ \A i \in 1..k : f[i] = b
    BY DEF Repeat
  <1> HIDE DEF f
  <1>2. OfBytes(f)
    BY <1>1, FunctionOfBytes
  <1> QED
    BY <1>2 DEF f

\* The bytes of a number in reverse.
LEMMA ReverseOfBytes ==
    ASSUME NEW n, NEW k, NEW t, n \in Nat, k \in 2..4, t = Reverse(LittleEndian(n, k))
    PROVE  OfBytes(t)
  <1> DEFINE s == LittleEndian(n, k)
  <1>0. k \in Nat
    OBVIOUS
  <1>1. OfBytes(s) /\ IsSequence(s) /\ Size(s) = k
    BY NumbersOfBytes, LittleEndianIsSequence
  <1>2. t = Reverse(s)
    OBVIOUS
  <1> HIDE DEF s
  <1>3. t = [i \in 1..k |-> t[i]] /\ \A i \in 1..k : t[i] = s[(k - i) + 1]
    BY <1>1, <1>2, ReversedBytes
  <1>4. ASSUME NEW i \in 1..k PROVE t[i] \in Byte
    <2>1. (k - i) + 1 \in 1..k
      BY <1>0
    <2>2. s[(k - i) + 1] \in Byte
      BY <1>1, <2>1 DEF OfBytes, Size
    <2> QED
      BY <1>3, <2>2
  <1> QED
    BY <1>0, <1>3, <1>4, FunctionOfBytes

\* The whole part and the hundredths of a number.
LEMMA TextOfBytes ==
    ASSUME NEW n, NEW k, n \in Nat, k \in {5, 7, 13} PROVE OfBytes(Text(n, k))
  <1> DEFINE j == k - 3
             u == Digits(n \div 100, j)
             point == <<46>>
             w == Digits(n % 100, 2)
  <1>1. Text(n, k) = u \o point \o w
    BY DEF Text
  <1>2. n \div 100 \in Nat /\ n % 100 \in Nat /\ j \in 2..10 /\ 2 \in 2..10
    OBVIOUS
  <1> HIDE DEF j
  <1>3. OfBytes(u) /\ OfBytes(w)
    BY <1>2, NumbersOfBytes
  <1>b. 46 \in Byte
    BY DEF Byte
  <1>4. OfBytes(point)
    BY <1>b, TuplesOfBytes
  <1> HIDE DEF u, point, w
  <1>5. OfBytes(u \o point)
    BY <1>3, <1>4, BytesJoin
  <1>6. OfBytes((u \o point) \o w)
    BY <1>3, <1>5, BytesJoin
  <1> QED
    BY <1>1, <1>6

\* The content of a reply of Unipump.
LEMMA UnipumpContentOfBytes ==
    ASSUME NEW a, NEW type, NEW nozzle, NEW volume, NEW price, NEW txn, NEW amount, a \in 10..31,
           Sensible(type, nozzle, volume, price, txn, amount)
    PROVE  OfBytes(UnipumpContent(a, type, nozzle, volume, price, txn, amount))
  <1> DEFINE c == UnipumpContent(a, type, nozzle, volume, price, txn, amount)
             sale == UnipumpSale(nozzle, volume, txn, amount)
             d == Digits(txn, 2)
             e == <<nozzle + 48>>
             s == Digits(amount, 6)
             v == Digits(volume \div 10, 6)
             p == Digits(price, 4)
  <1>0. /\ type \in Types /\ volume \in Nat /\ volume \div 10 \in Nat /\ price \in Nat
        /\ txn \in Nat /\ amount \in Nat
    BY SMT DEF Sensible
  <1>b. /\ a + 48 \in Byte /\ nozzle + 48 \in Byte
        /\ 0 \in Byte /\ 48 \in Byte /\ 49 \in Byte /\ 51 \in Byte
        /\ 65 \in Byte /\ 67 \in Byte /\ 83 \in Byte /\ 84 \in Byte
    BY SMT DEF Sensible, Byte
  <1>1. OfBytes(sale)
    <2>1. OfBytes(d) /\ OfBytes(s) /\ OfBytes(v)
      BY <1>0, NumbersOfBytes, 2 \in 2..10, 6 \in 2..10
    <2>2. OfBytes(e)
      BY <1>b, TuplesOfBytes
    <2>3. sale = d \o e \o s \o v
      BY DEF UnipumpSale
    <2> HIDE DEF d, e, s, v, sale
    <2>4. OfBytes(d \o e)
      BY <2>1, <2>2, BytesJoin
    <2>5. OfBytes((d \o e) \o s)
      BY <2>1, <2>4, BytesJoin
    <2>6. OfBytes(((d \o e) \o s) \o v)
      BY <2>1, <2>5, BytesJoin
    <2> QED
      BY <2>3, <2>6
  <1>2. OfBytes(p)
    BY <1>0, NumbersOfBytes, 4 \in 2..10
  <1>3. CASE type \in {"HANGED_FREE", "REMOVED_WAITING"}
    <2> DEFINE start == <<a + 48, 83>>
               rest == IF type = "HANGED_FREE" THEN <<48, 49>> ELSE <<nozzle + 48, 51>>
    <2>1. c = start \o rest
      BY <1>3 DEF UnipumpContent
    <2>2. OfBytes(start) /\ OfBytes(<<48, 49>>) /\ OfBytes(<<nozzle + 48, 51>>)
      BY <1>b, TuplesOfBytes
    <2>3. OfBytes(rest)
      BY <2>2
    <2> HIDE DEF c, start, rest
    <2>4. OfBytes(c)
      BY <2>1, <2>2, <2>3, BytesJoin
    <2> QED
      BY <2>4 DEF c
  <1>4. CASE type \in SaleTypes
    <2> DEFINE code == IF type = "FUEL_SUPPLY" THEN 65 ELSE 84
               start == <<a + 48, code>>
    <2>1. c = IF type = "FUEL_SUPPLY" THEN start \o sale ELSE start \o sale \o p
      BY <1>4 DEF UnipumpContent, SaleTypes
    <2>2. code \in Byte
      BY <1>b
    <2> HIDE DEF code
    <2>3. OfBytes(start)
      BY <1>b, <2>2, TuplesOfBytes
    <2> HIDE DEF c, start, sale, p
    <2>4. OfBytes(start \o sale)
      BY <1>1, <2>3, BytesJoin
    <2>5. OfBytes((start \o sale) \o p)
      BY <1>2, <2>4, BytesJoin
    <2>6. OfBytes(c)
      BY <2>1, <2>4, <2>5
    <2> QED
      BY <2>6 DEF c
  <1>5. CASE type = "TOTAL_RESPONSE"
    <2> DEFINE start == <<a + 48, 67>>
               b == <<48, 48, nozzle + 48>>
               w == LittleEndian(volume, 4)
               z == Repeat(0, 8)
               u == LittleEndian(amount, 4)
               y == Repeat(0, 4)
    <2>1. c = start \o b \o w \o z \o u \o y
      BY <1>5 DEF UnipumpContent
    <2>2. OfBytes(start) /\ OfBytes(b)
      BY <1>b, TuplesOfBytes
    <2>3. OfBytes(w) /\ OfBytes(u)
      BY <1>0, NumbersOfBytes, 4 \in 2..4
    <2>4. OfBytes(z) /\ OfBytes(y)
      BY <1>b, RepeatOfBytes, 8 \in Nat, 4 \in Nat
    <2> HIDE DEF c, start, b, w, z, u, y
    <2>5. OfBytes(start \o b)
      BY <2>2, BytesJoin
    <2>6. OfBytes((start \o b) \o w)
      BY <2>3, <2>5, BytesJoin
    <2>7. OfBytes(((start \o b) \o w) \o z)
      BY <2>4, <2>6, BytesJoin
    <2>8. OfBytes((((start \o b) \o w) \o z) \o u)
      BY <2>3, <2>7, BytesJoin
    <2>9. OfBytes(c)
      BY <2>1, <2>4, <2>8, BytesJoin
    <2> QED
      BY <2>9 DEF c
  <1> QED
    BY <1>0, <1>3, <1>4, <1>5 DEF Types, SaleTypes

\* The data of a reply of Adast, no more than the length byte can count.
LEMMA AdastDataOfBytes ==
    ASSUME NEW type, NEW nozzle, NEW volume, NEW price, NEW txn, NEW amount, NEW data,
           Sensible(type, nozzle, volume, price, txn, amount),
           data = AdastData(type, nozzle, volume, price, txn, amount)
    PROVE  OfBytes(data) /\ Len(data) \in Byte
  <1> DEFINE sale == AdastSale(nozzle, volume, price, txn, amount)
             r == Reverse(LittleEndian(txn, 2))
             n == <<nozzle + 48, 49, 48>>
             s == Text(amount, 7)
             v == Text(volume \div 10, 7)
             q == Text(price, 5)
  <1>0. /\ type \in Types /\ volume \div 10 \in Nat /\ price \in Nat /\ txn \in Nat
        /\ amount \in Nat
    BY SMT DEF Sensible
  <1>b. /\ nozzle + 48 \in Byte /\ 48 \in Byte /\ 49 \in Byte /\ 50 \in Byte
        /\ 66 \in Byte /\ 74 \in Byte /\ 82 \in Byte /\ 97 \in Byte
        /\ 7 \in Byte /\ 25 \in Byte /\ 28 \in Byte
    BY SMT DEF Sensible, Byte
  <1>1. OfBytes(sale)
    <2>1. OfBytes(r)
      BY <1>0, ReverseOfBytes, 2 \in 2..4
    <2>2. OfBytes(n)
      BY <1>b, TuplesOfBytes
    <2>3. OfBytes(s) /\ OfBytes(v) /\ OfBytes(q)
      BY <1>0, TextOfBytes, 5 \in {5, 7, 13}, 7 \in {5, 7, 13}
    <2>4. sale = r \o n \o s \o v \o q
      BY DEF AdastSale
    <2> HIDE DEF sale, r, n, s, v, q
    <2>5. OfBytes(r \o n)
      BY <2>1, <2>2, BytesJoin
    <2>6. OfBytes((r \o n) \o s)
      BY <2>3, <2>5, BytesJoin
    <2>7. OfBytes(((r \o n) \o s) \o v)
      BY <2>3, <2>6, BytesJoin
    <2> QED
      BY <2>3, <2>4, <2>7, BytesJoin
  <1>2. Size(sale) = 24
    <2>1. /\ sale = AdastSale(nozzle, volume, price, txn, amount)
          /\ r = Reverse(LittleEndian(txn, 2)) /\ n = <<nozzle + 48, 49, 48>>
          /\ v = Text(volume \div 10, 7)
      OBVIOUS
    <2> HIDE DEF sale, r, n, v
    <2> QED
      BY <2>1, AdastSaleParts
  <1> HIDE DEF r, n, s, v, q
  <1>3. CASE type \in {"HANGED_FREE", "REMOVED_WAITING"}
    <2> DEFINE start == << 74 >>
               g == NozzleStates(type, nozzle)
    <2>1. data = start \o g
      BY <1>3 DEF AdastData
    <2>2. OfBytes(start) /\ Size(start) = 1
      BY <1>b, TuplesOfBytes, Tuples
    <2>3. g = [i \in 1..6 |-> g[i]] /\ \A i \in 1..6 : g[i] \in Byte
      BY <1>b DEF NozzleStates
    <2> HIDE DEF start, g
    <2>4. OfBytes(g) /\ Size(g) = 6
      BY <2>3, FunctionOfBytes, FunctionIsSequence, 6 \in Nat
    <2>5. OfBytes(data)
      BY <2>1, <2>2, <2>4, BytesJoin
    <2>6. Of2(data, start, g)
      BY <2>1, <2>2, <2>4, TwoParts, BytesAreSequence
    <2>7. Size(data) = 7
      BY <2>2, <2>4, <2>6 DEF Of2
    <2> QED
      BY <1>b, <2>5, <2>7 DEF Size
  <1>4. CASE type \in SaleTypes
    <2> DEFINE code == IF type = "FUEL_SUPPLY" THEN 82 ELSE 97
               start == <<code>>
    <2>1. data = start \o sale
      BY <1>4 DEF AdastData, SaleTypes
    <2>2. code \in Byte
      BY <1>b
    <2> HIDE DEF code
    <2>3. OfBytes(start) /\ Size(start) = 1
      BY <2>2, TuplesOfBytes, Tuples
    <2> HIDE DEF start, sale
    <2>4. OfBytes(data)
      BY <1>1, <2>1, <2>3, BytesJoin
    <2>5. Of2(data, start, sale)
      BY <1>1, <2>1, <2>3, TwoParts, BytesAreSequence
    <2>6. Size(data) = 25
      BY <1>2, <2>3, <2>5 DEF Of2
    <2> QED
      BY <1>b, <2>4, <2>6 DEF Size
  <1>5. CASE type = "TOTAL_RESPONSE"
    <2> DEFINE start == <<66, nozzle + 48>>
               t == Text(volume \div 10, 13)
               u == Text(amount, 13)
    <2>1. data = start \o t \o u
      BY <1>5 DEF AdastData
    <2>2. OfBytes(start) /\ Size(start) = 2
      BY <1>b, TuplesOfBytes, Tuples
    <2>3. OfBytes(t) /\ OfBytes(u) /\ Size(t) = 13 /\ Size(u) = 13
      BY <1>0, TextOfBytes, TextSizes, 13 \in {5, 7, 13}
    <2> HIDE DEF start, t, u
    <2>4. OfBytes(start \o t)
      BY <2>2, <2>3, BytesJoin
    <2>5. OfBytes(data)
      BY <2>1, <2>3, <2>4, BytesJoin
    <2>6. Of3(data, start, t, u)
      BY <2>1, <2>2, <2>3, ThreeParts, BytesAreSequence
    <2>7. Size(data) = 28
      BY <2>2, <2>3, <2>6 DEF Of3
    <2> QED
      BY <1>b, <2>5, <2>7 DEF Size
  <1> QED
    BY <1>0, <1>3, <1>4, <1>5 DEF Types, SaleTypes

\* The checksum of a reply is a number, where the protocol is spoken.
LEMMA UnipumpSum ==
    ASSUME NEW p, NEW m, NEW packet, p \in Pumps, m \in MeaningsOf(p), "Unipump" \in Protocols,
           packet = Unipump!Says(m, Addr[p])
    PROVE  Crc16(Slice(packet, 2, Len(packet) - 6)) \in Nat
  BY ChecksumsAssumption

\* With Adast,
LEMMA AdastSum ==
    ASSUME NEW p, NEW m, NEW packet, p \in Pumps, m \in MeaningsOf(p), "Adast" \in Protocols,
           packet = Adast!Says(m, Addr[p])
    PROVE  CrcAdast(Slice(packet, 2, Len(packet) - 5)) \in Nat
  BY ChecksumsAssumption

\* and with Shelf.
LEMMA ShelfSum ==
    ASSUME NEW p, NEW m, NEW packet, NEW counter, p \in Pumps, m \in MeaningsOf(p),
           "Shelf" \in Protocols, counter \in Byte,
           packet = Slave!PreparePacketVec(m, Addr[p], counter)
    PROVE  CrcShelf(SubSeq(packet, 1, Len(packet) - 2)) \in Nat
  BY ChecksumsAssumption

\* A reply of Unipump is bytes.
LEMMA UnipumpSaysBytes ==
    ASSUME NEW p, NEW m, NEW packet, p \in Pumps, "Unipump" \in Protocols,
           MeantBy(p, m, "Unipump"), packet = Unipump!Says(m, Addr[p])
    PROVE  OfBytes(packet)
  <1> DEFINE type == m.type
             nozzle == m.nozzle
             volume == m.volume
             price == m.price
             txn == m.txn
             amount == m.amount
             a == Addr[p]
             c == UnipumpContent(a, type, nozzle, volume, price, txn, amount)
             d == LittleEndian(Crc16(c), 2)
             start == <<16, 2>>
             rest == <<16, 3>>
  <1>1. Sensible(type, nozzle, volume, price, txn, amount) /\ m \in MeaningsOf(p)
    BY DEF MeantBy
  <1>2. a \in 10..31
    BY PumpsAssumption
  <1>3. packet = Unipump!Frame(c)
    BY <1>1, UnipumpSaysContent
  <1>4. OfBytes(c)
    BY <1>1, <1>2, UnipumpContentOfBytes, SMTT(30)
  <1>5. packet = start \o c \o d \o rest
    BY <1>3, UnipumpNumbers DEF Unipump!Frame, Unipump!DLE, Unipump!STX, Unipump!ETX
  <1>6. 16 \in Byte /\ 2 \in Byte /\ 3 \in Byte
    BY DEF Byte
  <1>7. OfBytes(start) /\ OfBytes(rest)
    BY <1>6, TuplesOfBytes
  <1>8. Crc16(Slice(packet, 2, Len(packet) - 6)) \in Nat
    BY <1>1, UnipumpSum
  <1> HIDE DEF type, nozzle, volume, price, txn, amount, a, c, start, rest
  <1>9. Slice(packet, 2, Len(packet) - 6) = c
    <2>1. IsSequence(c) /\ Size(c) \in Nat
      BY <1>4, BytesAreSequence, SequencesHaveLengths
    <2>2. Has(packet, 2, c) /\ Size(packet) = Size(c) + 6
      BY <1>3, <2>1, UnipumpFramed
    <2>3. Len(packet) - 6 = Size(c)
      BY <2>1, <2>2 DEF Size
    <2> QED
      BY <2>1, <2>2, <2>3, PartSliced, 2 \in Nat
  <1>10. OfBytes(d)
    BY <1>8, <1>9, NumbersOfBytes, 2 \in 2..4
  <1> HIDE DEF d
  <1>11. OfBytes(start \o c)
    BY <1>4, <1>7, BytesJoin
  <1>12. OfBytes((start \o c) \o d)
    BY <1>10, <1>11, BytesJoin
  <1> QED
    BY <1>5, <1>7, <1>12, BytesJoin

\* A reply of Adast is bytes.
LEMMA AdastSaysBytes ==
    ASSUME NEW p, NEW m, NEW packet, p \in Pumps, "Adast" \in Protocols,
           MeantBy(p, m, "Adast"), packet = Adast!Says(m, Addr[p])
    PROVE  OfBytes(packet)
  <1> DEFINE data == AdastData(m.type, m.nozzle, m.volume, m.price, m.txn, m.amount)
             a == Addr[p]
             n == Len(data)
             head == <<a, n>>
             c == head \o data
             d == LittleEndian(CrcAdast(c), 2)
             start == <<22, 22>>
             rest == <<255>>
  <1>1. /\ Sensible(m.type, m.nozzle, m.volume, m.price, m.txn, m.amount)
        /\ m.type \in Types /\ m \in MeaningsOf(p)
    BY DEF MeantBy, Sensible
  <1>2. packet = Adast!Frame(a, n, data)
    BY <1>1, AdastSaysData
  <1>3. OfBytes(data) /\ n \in Byte
    BY <1>1, AdastDataOfBytes
  <1>4. a \in Byte /\ 22 \in Byte /\ 255 \in Byte
    BY PumpsAssumption DEF Byte
  <1>5. CrcAdast(Slice(packet, 2, Len(packet) - 5)) \in Nat
    BY <1>1, AdastSum
  <1> HIDE DEF data, a, n
  <1>6. packet = start \o c \o d \o rest
    BY <1>2, AdastNumbers DEF Adast!Frame, Adast!SYNC
  <1>7. OfBytes(start) /\ OfBytes(rest) /\ OfBytes(head)
    BY <1>3, <1>4, TuplesOfBytes
  <1>8. IsSequence(head) /\ Size(head) = 2 /\ IsSequence(start) /\ Size(start) = 2
        /\ IsSequence(rest) /\ Size(rest) = 1
    BY Tuples
  <1> HIDE DEF head, start, rest
  <1>9. OfBytes(c)
    BY <1>3, <1>7, BytesJoin
  <1>10. IsSequence(c) /\ Size(c) \in Nat
    BY <1>9, BytesAreSequence, SequencesHaveLengths
  <1>11. IsSequence(d) /\ Size(d) = 2
    BY LittleEndianIsSequence, 2 \in 2..4
  <1>12. Slice(packet, 2, Len(packet) - 5) = c
    <2> DEFINE e == d
    <2> HIDE DEF c, d
    <2>1. Of4(packet, start, c, d, rest)
      BY <1>6, <1>8, <1>10, <1>11, FourParts
    <2>2. Has(packet, 2, c) /\ Size(packet) = Size(c) + 5
      BY <1>8, <1>10, <1>11, <2>1 DEF Of4
    <2>3. Len(packet) - 5 = Size(c)
      BY <1>10, <2>2 DEF Size
    <2> QED
      BY <1>10, <2>2, <2>3, PartSliced, 2 \in Nat
  <1>13. OfBytes(d)
    BY <1>5, <1>12, NumbersOfBytes, 2 \in 2..4
  <1> HIDE DEF c, d
  <1>14. OfBytes(start \o c)
    BY <1>7, <1>9, BytesJoin
  <1>15. OfBytes((start \o c) \o d)
    BY <1>13, <1>14, BytesJoin
  <1> QED
    BY <1>6, <1>7, <1>15, BytesJoin

\* A reply of the slave is bytes, if its data are and the checksum is a number.
LEMMA ShelfReplyBytes ==
    ASSUME NEW a, NEW counter, NEW length, NEW data, NEW packet, a \in Byte, counter \in Byte,
           length \in Byte, OfBytes(data), packet = Slave!Reply(a, counter, length, data),
           CrcShelf(SubSeq(packet, 1, Len(packet) - 2)) \in Nat
    PROVE  OfBytes(packet)
  <1> DEFINE head == <<45, a, counter, length>>
             c == head \o data
             d == LittleEndian(CrcShelf(c), 2)
  <1>1. packet = c \o d
    BY SlaveNumbers DEF Slave!Reply
  <1>2. 45 \in Byte
    BY DEF Byte
  <1>3. OfBytes(head)
    BY <1>2, LongTuplesOfBytes
  <1> HIDE DEF head
  <1>4. OfBytes(c)
    BY <1>3, BytesJoin
  <1>5. IsSequence(c) /\ Size(c) \in Nat
    BY <1>4, BytesAreSequence, SequencesHaveLengths
  <1>6. IsSequence(d) /\ Size(d) = 2
    BY LittleEndianIsSequence, 2 \in 2..4
  <1>7. SubSeq(packet, 1, Len(packet) - 2) = c
    <2> HIDE DEF c, d
    <2>1. Of2(packet, c, d)
      BY <1>1, <1>5, <1>6, TwoParts
    <2>2. Has(packet, 0, c) /\ Size(packet) = Size(c) + 2
      BY <1>6, <2>1 DEF Of2
    <2>3. Slice(packet, 0, Size(c)) = c
      BY <1>5, <2>2, PartSliced, 0 \in Nat
    <2>4. Len(packet) - 2 = Size(c) /\ 0 + Size(c) = Size(c) /\ 0 + 1 = 1
      BY <1>5, <2>2 DEF Size
    <2> QED
      BY <2>3, <2>4 DEF Slice
  <1>8. OfBytes(d)
    BY <1>7, NumbersOfBytes, 2 \in 2..4
  <1> HIDE DEF c, d
  <1> QED
    BY <1>1, <1>4, <1>8, BytesJoin

\* The data of a reply in two parts.
LEMMA ShelfPartsBytes ==
    ASSUME NEW a, NEW counter, NEW length, NEW start, NEW d, NEW packet, a \in Byte,
           counter \in Byte, length \in Byte, OfBytes(start), OfBytes(d),
           packet = Slave!Reply(a, counter, length, start \o d),
           CrcShelf(SubSeq(packet, 1, Len(packet) - 2)) \in Nat
    PROVE  OfBytes(packet)
  <1>1. OfBytes(start \o d)
    BY BytesJoin
  <1> QED
    BY <1>1, ShelfReplyBytes

\* A bit for a nozzle is a byte, and with bit 0 one, too.
LEMMA NozzleBitIsByte ==
    ASSUME NEW n, n \in 1..6 PROVE 2^n \in Byte /\ 1 + 2^n \in Byte
  <1> DEFINE p == 2^n
  <1>1. n \in {1, 2, 3, 4, 5, 6}
    OBVIOUS
  <1>2. /\ n = 1 => p = 2
        /\ n = 2 => p = 4
        /\ n = 3 => p = 8
        /\ n = 4 => p = 16
        /\ n = 5 => p = 32
        /\ n = 6 => p = 64
    BY TwoTo, Zenon
  <1> HIDE DEF p
  <1>3. p \in Byte /\ 1 + p \in Byte
    BY <1>1, <1>2 DEF Byte
  <1> QED
    BY <1>3 DEF p

\* What the slave says is bytes.
LEMMA ShelfSaysBytes ==
    ASSUME NEW p, NEW m, NEW packet, NEW counter, p \in Pumps, "Shelf" \in Protocols,
           MeantBy(p, m, "Shelf"), counter \in Byte,
           packet = Slave!PreparePacketVec(m, Addr[p], counter)
    PROVE  OfBytes(packet)
  <1> DEFINE a == Addr[p]
             n == m.volume \div 10
             x == 2^m.nozzle
             y == 1 + x
             w == LittleEndian(n, 3)
  <1>1. /\ m \in MeaningsOf(p) /\ m.type \in Types /\ m.nozzle \in 0..6 /\ n \in Nat
        /\ m.price \in Nat /\ m.amount \in Nat
        /\ IF m.type = "HANGED_FREE" THEN m.nozzle = 0 ELSE m.nozzle >= 1
    BY SMT DEF MeantBy, Sensible
  <1>2. a \in Byte
    BY PumpsAssumption DEF Byte
  <1>3. CrcShelf(SubSeq(packet, 1, Len(packet) - 2)) \in Nat
    BY <1>1, ShelfSum
  <1>4. /\ 1 \in Byte /\ 2 \in Byte /\ 9 \in Byte /\ 11 \in Byte /\ 14 \in Byte /\ 17 \in Byte
        /\ 32 \in Byte /\ 33 \in Byte
        /\ 129 \in Byte /\ 132 \in Byte /\ 143 \in Byte /\ 147 \in Byte /\ 160 \in Byte
    BY SMT DEF Byte
  <1>5. m.type # "HANGED_FREE" => x \in Byte /\ y \in Byte
    <2> HIDE DEF x
    <2>1. m.type # "HANGED_FREE" => m.nozzle \in 1..6
      BY <1>1
    <2> QED
      BY <2>1, NozzleBitIsByte DEF x
  <1>6. OfBytes(w)
    BY <1>1, NumbersOfBytes, 3 \in 2..4
  <1>7. CASE m.type = "HANGED_FREE"
    <2> DEFINE data == <<129, 1, 32>>
    <2>1. packet = Slave!Reply(a, counter, 9, data)
      BY <1>7, SMT DEF Slave!PreparePacketVec, Slave!ResponseHangedFree
    <2>2. OfBytes(data)
      BY <1>4, TuplesOfBytes
    <2> HIDE DEF data, a
    <2> QED
      BY <1>2, <1>3, <1>4, <2>1, <2>2, ShelfReplyBytes
  <1>8. CASE m.type = "REMOVED_WAITING"
    <2> DEFINE data == <<129, y, 33>>
    <2>1. packet = Slave!Reply(a, counter, 9, data)
      BY <1>8, Zenon DEF Slave!PreparePacketVec, Slave!ResponseRemovedNozzle
    <2>0. y \in Byte
      BY <1>5, <1>8, Zenon
    <2> HIDE DEF y
    <2>2. OfBytes(data)
      BY <1>4, <2>0, TuplesOfBytes
    <2> HIDE DEF data, a
    <2> QED
      BY <1>2, <1>3, <1>4, <2>1, <2>2, ShelfReplyBytes
  <1>9. CASE m.type = "FUEL_SUPPLY"
    <2> DEFINE start == <<132, x, 143, 2, a>>
    <2>1. packet = Slave!Reply(a, counter, 14, start \o w)
      <3>1. packet = Slave!ResponseAmountInfo(m, a, counter)
        BY <1>9, Zenon DEF Slave!PreparePacketVec
      <3>2. packet = Slave!Reply(a, counter, 14, start \o Slave!LittleEndian(n, 3))
        BY <3>1, Zenon DEF Slave!ResponseAmountInfo
      <3> QED
        BY <3>2, SlaveNumbers, Zenon
    <2>0. x \in Byte
      BY <1>5, <1>9, Zenon
    <2> HIDE DEF x, a, w
    <2>2. OfBytes(start)
      BY <1>2, <1>4, <2>0, LongTuplesOfBytes
    <2> HIDE DEF start
    <2> QED
      BY <1>2, <1>3, <1>4, <1>6, <2>1, <2>2, ShelfPartsBytes
  <1>10. CASE m.type = "TOTAL_RESPONSE"
    <2> DEFINE start == << 160 >>
               z == LittleEndian(n, 4)
    <2>1. packet = Slave!Reply(a, counter, 11, start \o z)
      <3>1. packet = Slave!ResponseTotalInfo(m, a, counter)
        BY <1>10, Zenon DEF Slave!PreparePacketVec
      <3>2. packet = Slave!Reply(a, counter, 11, start \o Slave!LittleEndian(n, 4))
        BY <3>1, Zenon DEF Slave!ResponseTotalInfo
      <3> QED
        BY <3>2, SlaveNumbers, Zenon
    <2>2. OfBytes(start) /\ OfBytes(z)
      BY <1>1, <1>4, TuplesOfBytes, NumbersOfBytes, 4 \in 2..4
    <2> HIDE DEF start, z, a
    <2> QED
      BY <1>2, <1>3, <1>4, <2>1, <2>2, ShelfPartsBytes
  <1>11. CASE m.type = "SUPPLY_DONE"
    <2> DEFINE head == <<147, 1, 129>>
               u == LittleEndian(m.amount, 3)
               z == LittleEndian(m.price, 2)
               start == head \o w \o u
    <2>1. packet = Slave!Reply(a, counter, 17, start \o z)
      <3>1. packet = Slave!ResponseSupplyDone(m, a, counter)
        BY <1>11, Zenon DEF Slave!PreparePacketVec
      <3>2. packet = Slave!Reply(a, counter, 17,
                                 head \o Slave!LittleEndian(n, 3)
                                 \o Slave!LittleEndian(m.amount, 3)
                                 \o Slave!LittleEndian(m.price, 2))
        BY <3>1, Zenon DEF Slave!ResponseSupplyDone
      <3> QED
        BY <3>2, SlaveNumbers, Zenon
    <2>2. OfBytes(head)
      BY <1>4, TuplesOfBytes
    <2>3. OfBytes(u) /\ OfBytes(z)
      BY <1>1, NumbersOfBytes, 3 \in 2..4, 2 \in 2..4
    <2> HIDE DEF head, u, z, w, a
    <2>4. OfBytes(head \o w)
      BY <1>6, <2>2, BytesJoin
    <2>5. OfBytes(start)
      BY <2>3, <2>4, BytesJoin
    <2> HIDE DEF start
    <2> QED
      BY <1>2, <1>3, <1>4, <2>1, <2>3, <2>5, ShelfPartsBytes
  <1> QED
    BY <1>1, <1>7, <1>8, <1>9, <1>10, <1>11 DEF Types


-----------------------------------------------------------------------------
(***************************************************************************)
(* What is on the line.                                                    *)
(***************************************************************************)

\* A packet of the slave of Shelf, which answers to a number.
SlaveSaid(packet, m) ==
    \E counter \in Byte : packet = Slave!PreparePacketVec(m, Addr[m.id], counter)

\* A reply is what one of the pumps has said, and says what this pump may mean.
SentBy(r, lang) ==
    LET m == r.meant
    IN  /\ r = [packet |-> r.packet, meant |-> m]
        /\ m.id \in Pumps /\ MeantBy(m.id, m, lang)
        /\ lang = "Unipump" => r.packet = Unipump!Says(m, Addr[m.id])
        /\ lang = "Adast" => r.packet = Adast!Says(m, Addr[m.id])
        /\ lang = "Shelf" => SlaveSaid(r.packet, m)

WireInv(w, lang) == IsSequence(w) /\ \A i \in 1..Len(w) : SentBy(w[i], lang)

\* One reply more,
LEMMA WireGrows ==
    ASSUME NEW w, NEW r, NEW lang, WireInv(w, lang), SentBy(r, lang)
    PROVE  WireInv(Append(w, r), lang)
  <1>1. PICK S : w \in Seq(S)
    BY DEF WireInv, IsSequence
  <1>2. w \in Seq(S \cup {r})
    <2>1. \A i \in 1..Len(w) : w[i] \in S
      BY <1>1
    <2> QED
      BY <1>1, <2>1
  <1>3. Append(w, r) \in Seq(S \cup {r})
    BY <1>2
  <1>4. ASSUME NEW i \in 1..Len(Append(w, r)) PROVE SentBy(Append(w, r)[i], lang)
    <2>1. Len(Append(w, r)) = Len(w) + 1 /\ Len(w) \in Nat
      BY <1>1
    <2>2. CASE i <= Len(w)
      <3>1. Append(w, r)[i] = w[i] /\ i \in 1..Len(w)
        BY <1>1, <2>1, <2>2
      <3> QED
        BY <3>1 DEF WireInv
    <2>3. CASE i = Len(w) + 1
      <3>1. Append(w, r)[i] = r
        BY <1>1, <2>1, <2>3
      <3> QED
        BY <3>1
    <2> QED
      BY <2>1, <2>2, <2>3
  <1> QED
    BY <1>3, <1>4 DEF WireInv, IsSequence

\* and one less.
LEMMA WireShrinks ==
    ASSUME NEW w, NEW lang, WireInv(w, lang), w # <<>>
    PROVE  SentBy(w[1], lang) /\ WireInv(Tail(w), lang)
  <1>1. PICK S : w \in Seq(S)
    BY DEF WireInv, IsSequence
  <1>2. Len(w) \in Nat /\ Len(w) >= 1
    BY <1>1
  <1>3. Tail(w) \in Seq(S) /\ Len(Tail(w)) = Len(w) - 1
    BY <1>1, <1>2
  <1>4. ASSUME NEW i \in 1..Len(Tail(w)) PROVE SentBy(Tail(w)[i], lang)
    <2>1. Tail(w)[i] = w[i + 1] /\ i + 1 \in 1..Len(w)
      BY <1>1, <1>2, <1>3
    <2> QED
      BY <2>1 DEF WireInv
  <1>5. SentBy(w[1], lang)
    BY <1>2 DEF WireInv
  <1> QED
    BY <1>3, <1>4, <1>5 DEF WireInv, IsSequence

\* What the pump p says is sent by it.
LEMMA PumpsSend ==
    ASSUME PumpsInv, NEW p, NEW type, NEW counter, NEW r, p \in Pumps, type \in Types,
           r = [packet |-> Says(p, Meant(p, type), counter), meant |-> Meant(p, type)],
           protocol = "Shelf" => counter \in Byte
    PROVE  SentBy(r, protocol)
  <1> DEFINE m == Meant(p, type)
  <1>1. MeantBy(p, m, protocol)
    BY MeantByPump DEF PumpsInv
  <1>2. m.id = p
    BY <1>1 DEF MeantBy
  <1>3. /\ r.meant = m /\ r.packet = Says(p, m, counter)
        /\ r = [packet |-> r.packet, meant |-> r.meant]
    OBVIOUS
  <1> HIDE DEF m
  <1>4. /\ protocol = "Unipump" => r.packet = Unipump!Says(m, Addr[p])
        /\ protocol = "Adast" => r.packet = Adast!Says(m, Addr[p])
    BY <1>3 DEF Says
  <1>5. protocol = "Shelf" => SlaveSaid(r.packet, m)
    <2>1. protocol = "Shelf" => r.packet = Slave!PreparePacketVec(m, Addr[m.id], counter)
      BY <1>2, <1>3 DEF Says
    <2> QED
      BY <2>1 DEF SlaveSaid
  <1> QED
    BY <1>1, <1>2, <1>3, <1>4, <1>5 DEF SentBy

\* There are as many replies on the line as it can hold.
WireFits(w) == Len(w) \in Nat /\ Len(w) <= MaxWire

\* A request brings to the line, if anything, what the pump says that hears it.
LEMMA BroadcastKeepsWire ==
    ASSUME PumpsInv, WireInv(wire, protocol), WireFits(wire), protocol' = protocol, NEW packet,
           NEW counter, Broadcast(packet, counter), protocol = "Shelf" => counter \in Byte
    PROVE  WireInv(wire', protocol) /\ WireFits(wire')
  <1>1. CASE UNCHANGED <<pump, wire>>
    BY <1>1
  <1>2. ASSUME NEW p \in Pumps, NEW h,
               LET type  == IF h.type = "GET_TOTAL" THEN "TOTAL_RESPONSE" ELSE OwnStatus(p)
                   meant == Meant(p, type)
               IN  IF h.type \in {"STATUS_REQUEST", "GET_TOTAL"}
                   THEN /\ Len(wire) < MaxWire
                        /\ wire' = Append(wire, [packet |-> Says(p, meant, counter),
                                                 meant  |-> meant])
                   ELSE UNCHANGED wire
        PROVE  WireInv(wire', protocol) /\ WireFits(wire')
    <2> DEFINE type == IF h.type = "GET_TOTAL" THEN "TOTAL_RESPONSE" ELSE OwnStatus(p)
               r == [packet |-> Says(p, Meant(p, type), counter), meant |-> Meant(p, type)]
    <2>1. type \in Types
      <3>1. pump[p].phase \in {"hung", "lifted", "filling", "done"}
        BY PumpStates DEF PumpsInv
      <3> QED
        BY <3>1 DEF OwnStatus, Types
    <2>2. r = [packet |-> Says(p, Meant(p, type), counter), meant |-> Meant(p, type)]
      OBVIOUS
    <2>3. wire' = wire \/ (wire' = Append(wire, r) /\ Len(wire) < MaxWire)
      BY <1>2
    <2> HIDE DEF type, r
    <2>4. SentBy(r, protocol)
      BY <2>1, <2>2, PumpsSend
    <2>5. WireInv(wire', protocol)
      BY <2>3, <2>4, WireGrows
    <2>6. WireFits(wire')
      <3>1. IsSequence(wire)
        BY DEF WireInv
      <3>2. Len(Append(wire, r)) = Len(wire) + 1
        BY <3>1 DEF IsSequence
      <3> QED
        BY <2>3, <3>2, BoundsAssumption DEF WireFits
    <2> QED
      BY <2>5, <2>6
  <1> QED
    BY <1>1, <1>2 DEF Broadcast

-----------------------------------------------------------------------------
(***************************************************************************)
(* What the masters remember.                                              *)
(***************************************************************************)

\* Something is put into a map.
LEMMA PutIn ==
    ASSUME NEW f, NEW a, NEW v, NEW b
    PROVE  /\ b \in DOMAIN Put(f, a, v) => b \in DOMAIN f \/ b = a
           /\ Put(f, a, v)[a] = v
           /\ b # a /\ b \in DOMAIN f => Put(f, a, v)[b] = f[b]
  BY DEF Put

Histories == [Pumps -> [txn : 0..100, ended : 0..100]]

\* The master of Unipump keeps the number of the last sale of a pump whose end was read,
\* that of Adast the number of the last one read at all, and that of Shelf nothing.
KeptInv(kept, known, lang) ==
    /\ known \in Histories
    /\ DOMAIN kept \subseteq Addresses
    /\ \A p \in Pumps : Addr[p] \in DOMAIN kept =>
          /\ lang # "Shelf"
          /\ lang = "Unipump" => kept[Addr[p]] = Digits(known[p].ended, 2)
          /\ lang = "Adast" => kept[Addr[p]] = known[p].txn

\* What was seen of the pumps with what was meant by one reply more.
SeenWith(known, m) ==
    IF m.txn = 0 THEN known
    ELSE [known EXCEPT ![m.id] = [txn   |-> m.txn,
                                  ended |-> IF m.type = "SUPPLY_DONE" THEN m.txn ELSE @.ended]]

\* It is more of the pump p.
SeenMoreOf(p, m, known, then) ==
    /\ then \in Histories
    /\ \A q \in Pumps : q # p => then[q] = known[q]
    /\ m.type \in SaleTypes =>
          /\ then[p].txn = m.txn
          /\ then[p].ended = IF m.type = "SUPPLY_DONE" THEN m.txn ELSE known[p].ended
    /\ m.type \notin SaleTypes => then[p] = known[p]

\* More was seen of the pump whose reply it is.
LEMMA SeenMore ==
    ASSUME NEW p, NEW m, NEW known, NEW lang, p \in Pumps, MeantBy(p, m, lang),
           known \in Histories
    PROVE  SeenMoreOf(p, m, known, SeenWith(known, m))
  <1> DEFINE s == [txn   |-> m.txn,
                   ended |-> IF m.type = "SUPPLY_DONE" THEN m.txn ELSE known[p].ended]
  <1>1. m.id = p /\ (m.type \in SaleTypes <=> m.txn # 0) /\ m.txn \in 0..100
    <2>1. m.txn \in Nat /\ m.txn <= 100
      BY DEF MeantBy, Sensible
    <2> QED
      BY <2>1 DEF MeantBy
  <1>2. CASE m.type \in SaleTypes
    <2>1. SeenWith(known, m) = [known EXCEPT ![p] = s]
      BY <1>1, <1>2 DEF SeenWith
    <2>2. s \in [txn : 0..100, ended : 0..100]
      BY <1>1 DEF Histories
    <2>3. /\ s.txn = m.txn
          /\ s.ended = IF m.type = "SUPPLY_DONE" THEN m.txn ELSE known[p].ended
      OBVIOUS
    <2> HIDE DEF s
    <2> QED
      BY <1>2, <2>1, <2>2, <2>3 DEF SeenMoreOf, Histories
  <1>3. CASE m.type \notin SaleTypes
    BY <1>1, <1>3 DEF SeenWith, SeenMoreOf
  <1> QED
    BY <1>2, <1>3

\* Nothing is kept of what is not a sale, with Unipump not even of one that is running.
LEMMA KeptAsBefore ==
    ASSUME NEW p, NEW m, NEW known, NEW kept, NEW lang, p \in Pumps, MeantBy(p, m, lang),
           KeptInv(kept, known, lang),
           \/ lang = "Unipump" /\ m.type # "SUPPLY_DONE"
           \/ lang = "Adast" /\ m.type \notin SaleTypes
    PROVE  KeptInv(kept, SeenWith(known, m), lang)
  <1> DEFINE then == SeenWith(known, m)
  <1>0. known \in Histories
    BY DEF KeptInv
  <1>1. SeenMoreOf(p, m, known, then)
    BY <1>0, SeenMore
  <1> HIDE DEF then
  <1>2. ASSUME NEW q \in Pumps
        PROVE  /\ lang = "Unipump" => then[q].ended = known[q].ended
               /\ lang = "Adast" => then[q].txn = known[q].txn
    BY <1>1 DEF SeenMoreOf, SaleTypes
  <1>3. KeptInv(kept, then, lang)
    BY <1>1, <1>2 DEF KeptInv, SeenMoreOf
  <1> QED
    BY <1>3 DEF then

\* What is kept of a sale is its number.
LEMMA KeptOfSale ==
    ASSUME NEW p, NEW m, NEW known, NEW kept, NEW lang, NEW v, p \in Pumps, MeantBy(p, m, lang),
           KeptInv(kept, known, lang),
           \/ lang = "Unipump" /\ m.type = "SUPPLY_DONE" /\ v = Digits(m.txn, 2)
           \/ lang = "Adast" /\ m.type \in SaleTypes /\ v = m.txn
    PROVE  KeptInv(Put(kept, Addr[p], v), SeenWith(known, m), lang)
  <1> DEFINE then == SeenWith(known, m)
             put == Put(kept, Addr[p], v)
  <1>0. known \in Histories
    BY DEF KeptInv
  <1>1. SeenMoreOf(p, m, known, then)
    BY <1>0, SeenMore
  <1>2. put = Put(kept, Addr[p], v)
    OBVIOUS
  <1> HIDE DEF then, put
  <1>3. ASSUME NEW q \in Pumps, Addr[q] \in DOMAIN put
        PROVE  /\ lang # "Shelf"
               /\ lang = "Unipump" => put[Addr[q]] = Digits(then[q].ended, 2)
               /\ lang = "Adast" => put[Addr[q]] = then[q].txn
    <2>1. CASE q = p
      <3>1. put[Addr[p]] = v
        BY <1>2, PutIn
      <3>2. CASE lang = "Unipump" /\ m.type = "SUPPLY_DONE" /\ v = Digits(m.txn, 2)
        <4>1. then[p].ended = m.txn
          BY <1>1, <3>2 DEF SaleTypes, SeenMoreOf
        <4> QED
          BY <2>1, <3>1, <3>2, <4>1
      <3>3. CASE lang = "Adast" /\ m.type \in SaleTypes /\ v = m.txn
        <4>1. then[p].txn = m.txn
          BY <1>1, <3>3 DEF SeenMoreOf
        <4> QED
          BY <2>1, <3>1, <3>3, <4>1
      <3> QED
        BY <3>2, <3>3
    <2>2. CASE q # p
      <3>1. Addr[q] # Addr[p]
        BY <2>2, PumpsAssumption
      <3>2. Addr[q] \in DOMAIN kept /\ put[Addr[q]] = kept[Addr[q]]
        BY <1>2, <1>3, <3>1, PutIn
      <3>3. then[q] = known[q]
        BY <1>1, <2>2 DEF SeenMoreOf
      <3> QED
        BY <3>2, <3>3 DEF KeptInv
    <2> QED
      BY <2>1, <2>2
  <1>4. DOMAIN put \subseteq Addresses
    BY <1>2 DEF KeptInv, Put, Addresses
  <1>5. KeptInv(put, then, lang)
    BY <1>1, <1>3, <1>4 DEF KeptInv, SeenMoreOf
  <1> QED
    BY <1>5 DEF then, put

\* A reply is read: what is kept afterwards, and what the state that comes of it says.
Reported(s, m, lang, asked) ==
    LET sale == s.type \in {"FUEL_SUPPLY", "SUPPLY_DONE"}
    IN  /\ s.type # "ERROR" /\ s.id = asked =>
              /\ m.id = asked \/ s.type = "TOTAL_RESPONSE"
              /\ s.type = m.type /\ s.nozzle = m.nozzle
              /\ s.volume - m.volume \in IF lang = "Adast" /\ m.type # "HANGED_FREE"
                                            /\ m.type # "REMOVED_WAITING"
                                         THEN {4, 5} ELSE {0}
              /\ sale => s.txn = m.txn
              /\ lang = "Unipump" => s.amount = m.amount
              /\ lang = "Unipump" /\ s.type = "SUPPLY_DONE" => s.price = m.price
        /\ s.id \in Nat /\ s.volume \in Nat /\ m.id \in Pumps

\* With Unipump.
LEMMA UnipumpReports ==
    ASSUME NEW p, NEW m, NEW packet, NEW sent, NEW q, NEW kept, NEW known, p \in Pumps, q \in Pumps,
           "Unipump" \in Protocols, MeantBy(p, m, "Unipump"), sent = Unipump!Says(m, Addr[p]),
           packet = sent \/ packet \in SpoiltPackets(sent), Unipump!CheckCheckSum(packet),
           KeptInv(kept, known, "Unipump")
    PROVE  /\ KeptInv(Unipump!Remembered(packet, kept), SeenWith(known, m), "Unipump")
           /\ Reported(Unipump!ParseResponse(packet, Addr[q], q), m, "Unipump", q)
  <1> DEFINE s == Unipump!ParseResponse(packet, Addr[q], q)
             d == Digits(m.txn, 2)
             kept2 == Unipump!Remembered(packet, kept)
             put == Put(kept, Addr[p], d)
  <1>1. /\ s = UnipumpRead(Addr[p], Addr[q], q, m.type, m.nozzle, m.volume, m.price, m.txn,
                          m.amount)
        /\ kept2 = IF m.type = "SUPPLY_DONE" THEN put ELSE kept
    BY UnipumpReceives
  <1>2. m.id = p /\ m.volume \in Nat
    BY DEF MeantBy, Sensible
  <1>3. p # 0 /\ q # 0 /\ q \in Nat /\ (Addr[p] = Addr[q] => p = q)
    BY PumpsAssumption
  <1>4. put = Put(kept, Addr[p], d) /\ d = Digits(m.txn, 2)
    OBVIOUS
  <1> HIDE DEF s, d, kept2, put
  <1>5. /\ s.id = IF m.type = "TOTAL_RESPONSE" \/ Addr[p] = Addr[q] THEN q ELSE 0
        /\ s.nozzle = m.nozzle /\ s.type = m.type /\ s.volume = m.volume /\ s.txn = m.txn
        /\ s.amount = m.amount /\ s.price = IF m.type = "SUPPLY_DONE" THEN m.price ELSE 0
    BY <1>1, Zenon DEF UnipumpRead
  <1>6. Reported(s, m, "Unipump", q)
    <2>1. m.volume - m.volume = 0
      BY <1>2
    <2> QED
      BY <1>2, <1>3, <1>5, <2>1 DEF Reported
  <1>7. KeptInv(kept2, SeenWith(known, m), "Unipump")
    <2>1. CASE m.type = "SUPPLY_DONE"
      <3>1. KeptInv(put, SeenWith(known, m), "Unipump")
        BY <1>4, <2>1, KeptOfSale
      <3> QED
        BY <1>1, <2>1, <3>1
    <2>2. CASE m.type # "SUPPLY_DONE"
      <3>1. KeptInv(kept, SeenWith(known, m), "Unipump")
        BY <2>2, KeptAsBefore
      <3> QED
        BY <1>1, <2>2, <3>1
    <2> QED
      BY <2>1, <2>2
  <1> QED
    BY <1>6, <1>7 DEF s, kept2

\* With Adast.
LEMMA AdastReports ==
    ASSUME NEW p, NEW m, NEW packet, NEW sent, NEW q, NEW kept, NEW known, NEW authorised,
           p \in Pumps, q \in Pumps, "Adast" \in Protocols, MeantBy(p, m, "Adast"),
           sent = Adast!Says(m, Addr[p]), packet = sent \/ packet \in SpoiltPackets(sent),
           Adast!CheckCheckSum(packet), KeptInv(kept, known, "Adast")
    PROVE  /\ KeptInv(Adast!Remembered(packet, kept), SeenWith(known, m), "Adast")
           /\ \A s \in Adast!ParseResponse(packet, Addr[q], q, authorised) :
                 Reported(s, m, "Adast", q)
  <1> DEFINE all == Adast!ParseResponse(packet, Addr[q], q, authorised)
             kept2 == Adast!Remembered(packet, kept)
             put == Put(kept, Addr[p], m.txn)
  <1>1. /\ AllRead(all, Addr[p], Addr[q], q, m)
        /\ kept2 = IF m.type \in SaleTypes THEN put ELSE kept
    BY AdastReceives
  <1>2. m.id = p
    BY DEF MeantBy
  <1>3. (Addr[p] = Addr[q] => p = q) /\ Addr[p] \in Nat /\ q \in Nat
    BY PumpsAssumption
  <1>4. put = Put(kept, Addr[p], m.txn)
    OBVIOUS
  <1> HIDE DEF all, kept2, put
  <1>5. ASSUME NEW s \in all PROVE Reported(s, m, "Adast", q)
    <2>1. AdastReads(s, Addr[p], Addr[q], q, m.type, m.nozzle, m.volume, m.txn)
      BY <1>1 DEF AllRead
    <2> QED
      BY <1>2, <1>3, <2>1 DEF AdastReads, Reported, SaleTypes
  <1>6. KeptInv(kept2, SeenWith(known, m), "Adast")
    <2>1. CASE m.type \in SaleTypes
      <3>1. KeptInv(put, SeenWith(known, m), "Adast")
        BY <1>4, <2>1, KeptOfSale
      <3> QED
        BY <1>1, <2>1, <3>1
    <2>2. CASE m.type \notin SaleTypes
      <3>1. KeptInv(kept, SeenWith(known, m), "Adast")
        BY <2>2, KeptAsBefore
      <3> QED
        BY <1>1, <2>2, <3>1
    <2> QED
      BY <2>1, <2>2
  <1> QED
    BY <1>5, <1>6 DEF all, kept2

\* A reply the line has read.
LEMMA ReadReports ==
    ASSUME PumpsInv, expected \in Pumps, WireInv(wire, protocol), WireFits(wire),
           KeptInv(holder, seen, protocol), Read
    PROVE  /\ WireInv(wire', protocol) /\ WireFits(wire') /\ KeptInv(holder', seen', protocol)
           /\ \A s \in state' : Reported(s.read, s.meant, protocol, expected)
  <1> DEFINE m == wire[1].meant
             p == m.id
  <1>1. wire # <<>> /\ wire' = Tail(wire)
    BY DEF Read
  <1>2. SentBy(wire[1], protocol) /\ WireInv(wire', protocol) /\ WireFits(wire')
    <2>1. SentBy(wire[1], protocol) /\ WireInv(wire', protocol)
      BY <1>1, WireShrinks
    <2>2. IsSequence(wire)
      BY DEF WireInv
    <2>3. Len(Tail(wire)) \in Nat /\ Len(Tail(wire)) <= Len(wire)
      BY <1>1, <2>2 DEF IsSequence, WireFits
    <2> QED
      BY <1>1, <2>1, <2>3, BoundsAssumption DEF WireFits
  <1>3. PICK packet \in {wire[1].packet} \cup SpoiltPackets(wire[1].packet) :
           IF CheckPacket(packet)
           THEN /\ state' = {[read |-> s, meant |-> m] : s \in ParseResponse(packet)}
                /\ holder' = Remembered(packet)
                /\ seen' = SeenWith(seen, m)
           ELSE state' = {} /\ UNCHANGED <<holder, seen>>
    BY Zenon DEF Read, SeenWith
  <1>4. /\ p \in Pumps /\ MeantBy(p, m, protocol)
        /\ protocol = "Unipump" => wire[1].packet = Unipump!Says(m, Addr[p])
        /\ protocol = "Adast" => wire[1].packet = Adast!Says(m, Addr[p])
    BY <1>2 DEF SentBy
  <1>5. CASE ~CheckPacket(packet)
    <2>1. state' = {} /\ holder' = holder /\ seen' = seen
      BY <1>3, <1>5
    <2> QED
      BY <1>2, <2>1
  <1>6. CASE CheckPacket(packet)
    <2>1. /\ state' = {[read |-> s, meant |-> m] : s \in ParseResponse(packet)}
          /\ holder' = Remembered(packet) /\ seen' = SeenWith(seen, m)
      BY <1>3, <1>6
    <2>2. packet = wire[1].packet \/ packet \in SpoiltPackets(wire[1].packet)
      BY <1>3
    <2>3. protocol \in Protocols /\ protocol \in {"Unipump", "Adast", "Shelf"}
      BY PumpsAssumption DEF PumpsInv
    <2>4. CASE protocol = "Unipump"
      <3>1. Unipump!CheckCheckSum(packet)
        BY <1>6, <2>4 DEF CheckPacket
      <3>2. /\ ParseResponse(packet) = {Unipump!ParseResponse(packet, Addr[expected], expected)}
            /\ Remembered(packet) = Unipump!Remembered(packet, holder)
        BY <2>4 DEF ParseResponse, Remembered
      <3> HIDE DEF m, p
      <3>3. /\ KeptInv(Unipump!Remembered(packet, holder), SeenWith(seen, m), "Unipump")
            /\ Reported(Unipump!ParseResponse(packet, Addr[expected], expected), m, "Unipump",
                        expected)
        BY <1>4, <2>2, <2>3, <2>4, <3>1, UnipumpReports
      <3>4. \A s \in state' : Reported(s.read, s.meant, protocol, expected)
        BY <2>1, <2>4, <3>2, <3>3
      <3> QED
        BY <1>2, <2>1, <2>4, <3>2, <3>3, <3>4
    <2>5. CASE protocol = "Adast"
      <3>1. Adast!CheckCheckSum(packet)
        BY <1>6, <2>5 DEF CheckPacket
      <3>2. /\ ParseResponse(packet) = Adast!ParseResponse(packet, Addr[expected], expected, prices)
            /\ Remembered(packet) = Adast!Remembered(packet, holder)
        BY <2>5 DEF ParseResponse, Remembered
      <3> HIDE DEF m, p
      <3>3. /\ KeptInv(Adast!Remembered(packet, holder), SeenWith(seen, m), "Adast")
            /\ \A s \in Adast!ParseResponse(packet, Addr[expected], expected, prices) :
                  Reported(s, m, "Adast", expected)
        BY <1>4, <2>2, <2>3, <2>5, <3>1, AdastReports
      <3>4. \A s \in state' : Reported(s.read, s.meant, protocol, expected)
        BY <2>1, <2>5, <3>2, <3>3
      <3> QED
        BY <1>2, <2>1, <2>5, <3>2, <3>3, <3>4
    <2>6. CASE protocol = "Shelf"
      BY <1>6, <2>6 DEF CheckPacket, Shelf!CheckCheckSum
    <2> QED
      BY <2>3, <2>4, <2>5, <2>6
  <1> QED
    BY <1>5, <1>6

-----------------------------------------------------------------------------
(***************************************************************************)
(* The line.                                                               *)
(***************************************************************************)

\* Prices and numbers of packets are kept by the addresses of the line.
MastersInv ==
    /\ DOMAIN prices \subseteq Addresses
    /\ DOMAIN packetIndexCounter \subseteq Addresses
    /\ \A a \in DOMAIN packetIndexCounter : packetIndexCounter[a] \in Byte

\* What the pumps keep of their orders, what is on the line, what the masters remember, and
\* what has come of the last request.
DialogueInv ==
    /\ PumpsInv
    /\ MastersInv
    /\ expected \in Pumps
    /\ WireInv(wire, protocol) /\ WireFits(wire)
    /\ KeptInv(holder, seen, protocol)
    /\ \A s \in state : Reported(s.read, s.meant, protocol, expected)

\* The line begins with nothing.
LEMMA DialogueStart == Init => DialogueInv
  <1> SUFFICES ASSUME Init PROVE DialogueInv
    OBVIOUS
  <1>1. /\ expected \in Pumps /\ wire = <<>> /\ holder = <<>> /\ state = {}
        /\ seen = [p \in Pumps |-> Unseen]
    BY DEF Init
  <1>2. IsSequence(wire) /\ Len(wire) = 0
    <2>1. <<>> \in Seq({}) /\ Len(<<>>) = 0
      OBVIOUS
    <2> QED
      BY <1>1, <2>1 DEF IsSequence
  <1>3. WireInv(wire, protocol) /\ WireFits(wire)
    BY <1>2, BoundsAssumption DEF WireInv, WireFits
  <1>4. KeptInv(holder, seen, protocol)
    <2>1. DOMAIN holder = {}
      BY <1>1
    <2>2. seen \in Histories
      BY <1>1 DEF Unseen, Histories
    <2> QED
      BY <2>1, <2>2 DEF KeptInv
  <1>5. MastersInv
    BY DEF Init, MastersInv
  <1> QED
    BY <1>1, <1>3, <1>4, <1>5, PumpsStart DEF DialogueInv

\* The next number of a packet is kept by its address, and is a byte.
LEMMA NumberedPacket ==
    ASSUME NEW kept, NEW a, NEW then, a \in Addresses, DOMAIN kept \subseteq Addresses,
           \A b \in DOMAIN kept : kept[b] \in Byte, then = Counted(a, kept)
    PROVE  /\ DOMAIN then \subseteq Addresses /\ \A b \in DOMAIN then : then[b] \in Byte
           /\ protocol = "Shelf" => then[a] \in Byte
  <1> DEFINE n == Shelf!NextCounter(a, kept)
             put == Put(kept, a, n)
  <1>1. n \in Byte
    BY DEF Shelf!NextCounter, Byte
  <1>2. then = put \/ (then = kept /\ protocol # "Shelf")
    BY DEF Counted
  <1>3. put = Put(kept, a, n)
    OBVIOUS
  <1> HIDE DEF n, put
  <1>4. DOMAIN put \subseteq Addresses
    BY <1>3 DEF Put
  <1>5. \A b \in DOMAIN put : put[b] \in Byte
    BY <1>1, <1>3, PutIn
  <1>6. put[a] \in Byte
    BY <1>1, <1>3, PutIn
  <1> QED
    BY <1>2, <1>4, <1>5, <1>6

\* The masters keep no address that is not on the line.
LEMMA MastersStep == MastersInv /\ [Next]_vars => MastersInv'
  <1> SUFFICES ASSUME MastersInv, [Next]_vars PROVE MastersInv'
    OBVIOUS
  <1>1. ASSUME NEW p \in Pumps, NEW type, Ask(p, type) PROVE MastersInv'
    <2>1. prices' = prices /\ packetIndexCounter' = Counted(Addr[p], packetIndexCounter)
      BY <1>1, Zenon DEF Ask
    <2>2. Addr[p] \in Addresses
      BY DEF Addresses
    <2> QED
      BY <2>1, <2>2, NumberedPacket DEF MastersInv
  <1>2. ASSUME NEW p \in Pumps, NEW order \in Orders[p], Order(p, order) PROVE MastersInv'
    <2> DEFINE then == Counted(Addr[p], packetIndexCounter)
    <2>1. /\ prices' = prices \/ prices' = Put(prices, Addr[p], order.price)
          /\ packetIndexCounter' = Counted(Addr[p], then)
      BY <1>2, Zenon DEF Order
    <2>2. Addr[p] \in Addresses
      BY DEF Addresses
    <2>3. DOMAIN prices' \subseteq Addresses
      BY <2>1, <2>2 DEF MastersInv, Put
    <2>4. then = Counted(Addr[p], packetIndexCounter)
      OBVIOUS
    <2> HIDE DEF then
    <2>5. DOMAIN then \subseteq Addresses /\ \A b \in DOMAIN then : then[b] \in Byte
      BY <2>2, <2>4, NumberedPacket DEF MastersInv
    <2> QED
      BY <2>1, <2>2, <2>3, <2>5, NumberedPacket DEF MastersInv
  <1>3. CASE Restart
    BY <1>3 DEF Restart, MastersInv
  <1>4. ASSUME prices' = prices, packetIndexCounter' = packetIndexCounter PROVE MastersInv'
    BY <1>4 DEF MastersInv
  <1>5. CASE Read
    BY <1>4, <1>5 DEF Read
  <1>6. ASSUME NEW p \in Pumps, LiftNozzle(p) \/ Dispense(p) \/ HangUp(p) PROVE MastersInv'
    BY <1>4, <1>6 DEF LiftNozzle, Dispense, HangUp, PumpMoves, memory
  <1>7. CASE UNCHANGED vars
    BY <1>4, <1>7 DEF vars, memory
  <1> QED
    BY <1>1, <1>2, <1>3, <1>5, <1>6, <1>7 DEF Next

\* It goes on as it began.
LEMMA DialogueStep == DialogueInv /\ [Next]_vars => DialogueInv'
  <1> SUFFICES ASSUME DialogueInv, [Next]_vars PROVE DialogueInv'
    OBVIOUS
  <1>0. PumpsInv' /\ MastersInv'
    BY PumpsStep, MastersStep DEF DialogueInv
  <1>1. ASSUME NEW p \in Pumps,
               NEW type \in {"STATUS_REQUEST", "GET_TOTAL", "STOP_COMMAND", "CLOSE_REPORT"},
               Ask(p, type)
        PROVE  DialogueInv'
    <2>1. /\ protocol' = protocol /\ expected' = p /\ state' = {} /\ holder' = holder
          /\ seen' = seen
      BY <1>1 DEF Ask
    <2> DEFINE then == Counted(Addr[p], packetIndexCounter)
               counter == IF protocol = "Shelf" THEN then[Addr[p]] ELSE 0
    <2>2. PICK packet : Broadcast(packet, counter)
      BY <1>1, Zenon DEF Ask
    <2>4. protocol = "Shelf" => counter \in Byte
      <3>1. Addr[p] \in Addresses
        BY DEF Addresses
      <3>2. then = Counted(Addr[p], packetIndexCounter)
        OBVIOUS
      <3>3. counter = IF protocol = "Shelf" THEN then[Addr[p]] ELSE 0
        OBVIOUS
      <3> HIDE DEF then, counter
      <3>4. protocol = "Shelf" => then[Addr[p]] \in Byte
        BY <3>1, <3>2, NumberedPacket DEF DialogueInv, MastersInv
      <3> QED
        BY <3>3, <3>4
    <2> HIDE DEF then, counter
    <2>3. WireInv(wire', protocol) /\ WireFits(wire')
      BY <2>1, <2>2, <2>4, BroadcastKeepsWire DEF DialogueInv
    <2> QED
      BY <1>0, <2>1, <2>3 DEF DialogueInv
  <1>2. ASSUME NEW p \in Pumps, NEW order \in Orders[p], Order(p, order) PROVE DialogueInv'
    <2>1. /\ protocol' = protocol /\ expected' = p /\ state' = {} /\ holder' = holder
          /\ seen' = seen /\ wire' = wire
      BY <1>2, Zenon DEF Order
    <2> QED
      BY <1>0, <2>1 DEF DialogueInv
  <1>3. CASE Read
    <2>1. protocol' = protocol /\ expected' = expected
      BY <1>3 DEF Read
    <2>2. /\ WireInv(wire', protocol) /\ WireFits(wire') /\ KeptInv(holder', seen', protocol)
          /\ \A s \in state' : Reported(s.read, s.meant, protocol, expected)
      BY <1>3, ReadReports DEF DialogueInv
    <2> QED
      BY <1>0, <2>1, <2>2 DEF DialogueInv
  <1>4. CASE Restart
    <2>1. /\ protocol' = protocol /\ expected' = expected /\ state' = {} /\ holder' = <<>>
          /\ seen' = [p \in Pumps |-> Unseen] /\ wire' = wire
      BY <1>4 DEF Restart
    <2>2. KeptInv(holder', seen', protocol)
      <3>1. DOMAIN holder' = {}
        BY <2>1
      <3>2. seen' \in Histories
        BY <2>1 DEF Unseen, Histories
      <3> QED
        BY <3>1, <3>2 DEF KeptInv
    <2> QED
      BY <1>0, <2>1, <2>2 DEF DialogueInv
  <1>5. ASSUME NEW p \in Pumps, NEW moved, PumpMoves(p, moved) PROVE DialogueInv'
    <2>1. /\ protocol' = protocol /\ expected' = expected /\ state' = state /\ holder' = holder
          /\ seen' = seen /\ wire' = wire
      BY <1>5 DEF PumpMoves, memory
    <2> QED
      BY <1>0, <2>1 DEF DialogueInv
  <1>6. ASSUME NEW p \in Pumps, LiftNozzle(p) \/ Dispense(p) \/ HangUp(p) PROVE DialogueInv'
    BY <1>5, <1>6 DEF LiftNozzle, Dispense, HangUp
  <1>7. CASE UNCHANGED vars
    <2>1. /\ protocol' = protocol /\ expected' = expected /\ state' = state /\ holder' = holder
          /\ seen' = seen /\ wire' = wire
      BY <1>7 DEF vars, memory
    <2> QED
      BY <1>0, <2>1 DEF DialogueInv
  <1> QED
    BY <1>1, <1>2, <1>3, <1>4, <1>6, <1>7 DEF Next

\* A state the line takes for one of the pump it asked is what that pump meant, for every
\* number of pumps and of replies on the line, in Unipump and in Adast.
THEOREM Reports == Spec => []ReportsTrue
  <1>1. Init => DialogueInv
    BY DialogueStart
  <1>2. DialogueInv /\ [Next]_vars => DialogueInv'
    BY DialogueStep
  <1>3. DialogueInv => ReportsTrue
    BY DEF DialogueInv, Reported, ReportsTrue
  <1> QED
    BY <1>1, <1>2, <1>3, PTL DEF Spec

-----------------------------------------------------------------------------
(***************************************************************************)
(* The end of a report.                                                    *)
(***************************************************************************)

\* What the pump q hears of a CLOSE_REPORT to the pump p.
LEMMA UnipumpCloses ==
    ASSUME DialogueInv, protocol = "Unipump", NEW p, NEW q, NEW cmd, NEW counter, p \in Pumps,
           q \in Pumps, cmd.type = "CLOSE_REPORT", Addr[p] \in DOMAIN holder
    PROVE  Heard(q, PreparePacket(cmd, Addr[p], counter)) =
              IF q = p THEN {[type |-> "CLOSE_REPORT", txn |-> seen[p].ended]} ELSE {}
  <1> DEFINE n == seen[p].ended
             a == Addr[p]
             b == Addr[q]
  <1>1. holder[a] = Digits(n, 2) /\ n \in Nat /\ n <= 100
    BY DEF DialogueInv, KeptInv, Histories
  <1>2. a \in Int /\ b \in Int /\ (a = b <=> p = q)
    BY Addressed, PumpsAssumption
  <1>3. Heard(q, PreparePacket(cmd, a, counter)) =
           Unipump!Heard(Unipump!CloseCommand(a, holder), b)
    BY DEF Heard, PreparePacket, Unipump!PreparePacket
  <1> HIDE DEF n, a, b
  <1>4. n < 2080
    BY <1>1
  <1>5. Unipump!Heard(Unipump!CloseCommand(a, holder), b) =
           IF b = a THEN {[type |-> "CLOSE_REPORT", txn |-> n]} ELSE {}
    BY <1>1, <1>2, <1>4, UnipumpCloseHeard
  <1> QED
    BY <1>2, <1>3, <1>5 DEF n, a, b

\* The same with Adast.
LEMMA AdastCloses ==
    ASSUME DialogueInv, protocol = "Adast", NEW p, NEW q, NEW cmd, NEW counter, p \in Pumps,
           q \in Pumps, cmd.type = "CLOSE_REPORT", Addr[p] \in DOMAIN holder
    PROVE  Heard(q, PreparePacket(cmd, Addr[p], counter)) =
              IF q = p THEN {[type |-> "CLOSE_REPORT", txn |-> seen[p].txn]} ELSE {}
  <1> DEFINE n == seen[p].txn
             a == Addr[p]
             b == Addr[q]
  <1>1. holder[a] = n /\ n \in Nat /\ n <= 100
    BY DEF DialogueInv, KeptInv, Histories
  <1>2. a \in Int /\ b \in Int /\ (a = b <=> p = q)
    BY Addressed, PumpsAssumption
  <1>3. Heard(q, PreparePacket(cmd, a, counter)) = Adast!Heard(Adast!CloseCommand(a, holder), b)
    BY DEF Heard, PreparePacket, Adast!PreparePacket
  <1> HIDE DEF n, a, b
  <1>4. Adast!Heard(Adast!CloseCommand(a, holder), b) =
           IF b = a THEN {[type |-> "CLOSE_REPORT", txn |-> n]} ELSE {}
    BY <1>1, <1>2, AdastCloseHeard
  <1> QED
    BY <1>2, <1>3, <1>4 DEF n, a, b

\* A CLOSE_REPORT names what was read.
LEMMA NamesWhatWasRead == DialogueInv => ClosesWhatWasRead
  <1> SUFFICES ASSUME DialogueInv, NEW p \in Pumps
               PROVE  Named(p) \subseteq
                         {IF protocol = "Adast" THEN seen[p].txn ELSE seen[p].ended}
    BY DEF ClosesWhatWasRead
  <1> DEFINE cmd == [type |-> "CLOSE_REPORT"]
             heard == Heard(p, PreparePacket(cmd, Addr[p], packetIndexCounter))
  <1>1. CASE Addr[p] \notin DOMAIN holder
    BY <1>1 DEF Named
  <1>2. CASE Addr[p] \in DOMAIN holder
    <2>1. Named(p) = {h.txn : h \in heard}
      BY <1>2 DEF Named
    <2>2. cmd.type = "CLOSE_REPORT"
      OBVIOUS
    <2>3. protocol = "Unipump" \/ protocol = "Adast"
      BY <1>2, PumpsAssumption DEF DialogueInv, PumpsInv, KeptInv
    <2>4. CASE protocol = "Unipump"
      <3>1. heard = {[type |-> "CLOSE_REPORT", txn |-> seen[p].ended]}
        BY <1>2, <2>2, <2>4, UnipumpCloses
      <3> QED
        BY <2>1, <2>4, <3>1
    <2>5. CASE protocol = "Adast"
      <3>1. heard = {[type |-> "CLOSE_REPORT", txn |-> seen[p].txn]}
        BY <1>2, <2>2, <2>5, AdastCloses
      <3> QED
        BY <2>1, <2>5, <3>1
    <2> QED
      BY <2>3, <2>4, <2>5
  <1> QED
    BY <1>1, <1>2

\* A CLOSE_REPORT names to a pump the sale that was read last from that very pump, for every
\* number of pumps and in every order of requests and of late replies.
THEOREM ReportsClosed == Spec => []ClosesWhatWasRead
  <1>1. Init => DialogueInv
    BY DialogueStart
  <1>2. DialogueInv /\ [Next]_vars => DialogueInv'
    BY DialogueStep
  <1>3. DialogueInv => ClosesWhatWasRead
    BY NamesWhatWasRead
  <1> QED
    BY <1>1, <1>2, <1>3, PTL DEF Spec

\* A pump that speaks Unipump forgets its sale only when it is told to close the report of
\* the sale, and so after its end was read.
LEMMA UnipumpForgets ==
    ASSUME DialogueInv, protocol = "Unipump", NEW p, NEW q, NEW type, p \in Pumps, q \in Pumps,
           type \in {"STATUS_REQUEST", "GET_TOTAL", "STOP_COMMAND", "CLOSE_REPORT"},
           Ask(q, type), pump[p].phase = "done", pump'[p].phase = "hung"
    PROVE  seen[p].ended = pump[p].txn
  <1> DEFINE cmd == [type |-> type, nozzle |-> 1]
             packet == PreparePacket(cmd, Addr[q], packetIndexCounter)
  <1>1. /\ CanPrepare(cmd, Addr[q], packetIndexCounter)
        /\ \E counter : Broadcast(packet, counter)
    BY Zenon DEF Ask
  <1>2. pump \in [Pumps -> PumpState]
    BY DEF DialogueInv, PumpsInv
  <1>3. PICK r \in Pumps : \E h \in Heard(r, packet) : pump' = [pump EXCEPT ![r] = Obeys(r, h)]
    <2>1. pump' # pump
      OBVIOUS
    <2> HIDE DEF packet
    <2> QED
      BY <1>1, <2>1 DEF Broadcast
  <1>4. PICK h \in Heard(r, packet) : pump' = [pump EXCEPT ![r] = Obeys(r, h)]
    BY <1>3
  <1>5. r = p /\ Obeys(p, h).phase = "hung"
    BY <1>2, <1>4
  <1>0. h \in Heard(p, packet) /\ h.type = "CLOSE_REPORT" /\ h.txn = pump[p].txn
    <2>1. Obeys(p, h) # pump[p]
      BY <1>5
    <2> QED
      BY <1>5, <2>1 DEF Obeys
  <1>6. cmd.type = type /\ Addr[q] \in Int /\ Addr[p] \in Int
    BY Addressed
  <1>7. Heard(p, packet) = Unipump!Heard(Unipump!PreparePacket(cmd, Addr[q], holder), Addr[p])
    BY DEF Heard, PreparePacket
  <1>8. type = "CLOSE_REPORT"
    <2>1. CASE type = "STATUS_REQUEST"
      <3>1. Heard(p, packet) = Unipump!Heard(Unipump!StatusRequest(Addr[q]), Addr[p])
        BY <1>6, <1>7, <2>1 DEF Unipump!PreparePacket
      <3> HIDE DEF packet, cmd
      <3>2. \A g \in Unipump!Heard(Unipump!StatusRequest(Addr[q]), Addr[p]) :
               g.type = "STATUS_REQUEST"
        BY <1>6, UnipumpAskHeard
      <3> QED
        BY <1>0, <3>1, <3>2
    <2>2. CASE type = "STOP_COMMAND"
      <3>1. Heard(p, packet) = Unipump!Heard(Unipump!StopCommand(Addr[q]), Addr[p])
        BY <1>6, <1>7, <2>2 DEF Unipump!PreparePacket
      <3> HIDE DEF packet, cmd
      <3>2. \A g \in Unipump!Heard(Unipump!StopCommand(Addr[q]), Addr[p]) :
               g.type = "STOP_COMMAND"
        BY <1>6, UnipumpAskHeard
      <3> QED
        BY <1>0, <3>1, <3>2
    <2>3. CASE type = "GET_TOTAL"
      <3>1. Heard(p, packet) = Unipump!Heard(Unipump!TotalCommand(cmd, Addr[q]), Addr[p])
        BY <1>6, <1>7, <2>3 DEF Unipump!PreparePacket
      <3> HIDE DEF packet, cmd
      <3>2. \A g \in Unipump!Heard(Unipump!TotalCommand(cmd, Addr[q]), Addr[p]) :
               g.type = "GET_TOTAL"
        BY <1>6, UnipumpAskHeard
      <3> QED
        BY <1>0, <3>1, <3>2
    <2> QED
      BY <2>1, <2>2, <2>3
  <1>9. Addr[q] \in DOMAIN holder
    BY <1>1, <1>6, <1>8 DEF CanPrepare, Unipump!CanPrepare
  <1>10. Heard(p, packet) =
            IF p = q THEN {[type |-> "CLOSE_REPORT", txn |-> seen[q].ended]} ELSE {}
    BY <1>6, <1>8, <1>9, UnipumpCloses
  <1> HIDE DEF packet
  <1>11. p = q /\ h = [type |-> "CLOSE_REPORT", txn |-> seen[q].ended]
    BY <1>0, <1>10
  <1> QED
    BY <1>0, <1>11

\* In no step does a pump forget a sale unread.
LEMMA ForgetsWhatWasRead ==
    ASSUME DialogueInv, Next, NEW p, p \in Pumps, protocol = "Unipump",
           pump[p].phase = "done", pump'[p].phase = "hung"
    PROVE  seen[p].ended = pump[p].txn
  <1>1. pump \in [Pumps -> PumpState]
    BY DEF DialogueInv, PumpsInv
  <1>2. ASSUME NEW q \in Pumps,
               NEW type \in {"STATUS_REQUEST", "GET_TOTAL", "STOP_COMMAND", "CLOSE_REPORT"},
               Ask(q, type)
        PROVE  seen[p].ended = pump[p].txn
    BY <1>2, UnipumpForgets
  <1>3. ASSUME NEW q \in Pumps, NEW order \in Orders[q], Order(q, order) PROVE FALSE
    <2>1. pump[q].phase = "lifted"
      BY <1>3 DEF Order
    <2>2. pump' = pump \/ \E t : pump' = [pump EXCEPT ![q] = t]
      BY <1>3, Zenon DEF Order
    <2> QED
      BY <1>1, <2>1, <2>2
  <1>4. ASSUME Read \/ Restart PROVE FALSE
    <2>1. pump' = pump
      BY <1>4 DEF Read, Restart
    <2> QED
      BY <2>1
  <1>5. ASSUME NEW q \in Pumps, NEW moved, PumpMoves(q, moved), moved.phase # "hung"
        PROVE  FALSE
    BY <1>1, <1>5 DEF PumpMoves
  <1>6. ASSUME NEW q \in Pumps, LiftNozzle(q) \/ Dispense(q) \/ HangUp(q) PROVE FALSE
    <2>1. pump[q] \in PumpState
      BY <1>1
    <2>2. CASE LiftNozzle(q)
      <3>1. [pump[q] EXCEPT !.phase = "lifted", !.sales = @ + 1].phase = "lifted"
        BY <2>1, NozzleLifted
      <3> QED
        BY <1>5, <2>2, <3>1 DEF LiftNozzle
    <2>3. CASE Dispense(q)
      <3>1. [pump[q] EXCEPT !.portions = @ + 1].phase = "filling"
        BY <2>1, <2>3, PortionDispensed DEF Dispense
      <3> QED
        BY <1>5, <2>3, <3>1 DEF Dispense
    <2>4. CASE HangUp(q)
      <3>1. [pump[q] EXCEPT !.phase = "done"].phase = "done"
        BY <2>1, PhaseChanged
      <3> QED
        BY <1>5, <2>4, <3>1 DEF HangUp
    <2> QED
      BY <1>6, <2>2, <2>3, <2>4
  <1> QED
    BY <1>2, <1>3, <1>4, <1>6 DEF Next

\* With Unipump no pump forgets a sale before the program has read its end, for every number
\* of pumps and in every order of requests and of late replies.
THEOREM EndsRead == Spec => EndReadBeforeClosed
  <1>1. Init => DialogueInv
    BY DialogueStart
  <1>2. DialogueInv /\ [Next]_vars => DialogueInv'
    BY DialogueStep
  <1>3. DialogueInv /\ [Next]_vars =>
           [\A p \in Pumps :
               protocol = "Unipump" /\ pump[p].phase = "done" /\ pump'[p].phase = "hung"
               => seen[p].ended = pump[p].txn]_vars
    BY ForgetsWhatWasRead
  <1> QED
    BY <1>1, <1>2, <1>3, PTL DEF Spec, EndReadBeforeClosed

-----------------------------------------------------------------------------
(***************************************************************************)
(* The types, and the two ends of Shelf.                                   *)
(***************************************************************************)

\* In whatever protocol of the line it was sent, a reply is bytes and a meaning.
LEMMA RepliesAreTyped ==
    ASSUME NEW r, NEW lang, lang \in Protocols, SentBy(r, lang)
    PROVE  r \in Reply
  <1> DEFINE m == r.meant
             packet == r.packet
             p == r.meant.id
             Packets == Seq(Byte)
             Meanings == UNION {MeaningsOf(q) : q \in Pumps}
  <1>1. /\ r = [packet |-> packet, meant |-> m]
        /\ p \in Pumps /\ MeantBy(p, m, lang)
        /\ lang = "Unipump" => packet = Unipump!Says(m, Addr[p])
        /\ lang = "Adast" => packet = Adast!Says(m, Addr[p])
        /\ lang = "Shelf" => SlaveSaid(packet, m)
    BY Zenon DEF SentBy
  <1>2. OfBytes(packet)
    <2> HIDE DEF m, packet
    <2>1. CASE lang = "Unipump"
      BY <1>1, <2>1, UnipumpSaysBytes
    <2>2. CASE lang = "Adast"
      BY <1>1, <2>2, AdastSaysBytes
    <2>3. CASE lang = "Shelf"
      <3>1. PICK counter \in Byte : packet = Slave!PreparePacketVec(m, Addr[m.id], counter)
        BY <1>1, <2>3 DEF SlaveSaid
      <3>2. m.id = p
        BY DEF m
      <3> HIDE DEF p
      <3> QED
        BY <1>1, <2>3, <3>1, <3>2, ShelfSaysBytes
    <2> QED
      BY <2>1, <2>2, <2>3, PumpsAssumption
  <1>3. packet \in Packets
    BY <1>2 DEF OfBytes
  <1>4. m \in Meanings
    <2>1. m \in MeaningsOf(p)
      BY <1>1 DEF MeantBy
    <2> HIDE DEF m, p
    <2> QED
      BY <1>1, <2>1
  <1>5. Reply = [packet : Packets, meant : Meanings]
    BY DEF Reply
  <1> HIDE DEF m, packet, p, Packets, Meanings
  <1> QED
    BY <1>1, <1>3, <1>4, <1>5

\* The line holds replies.
LEMMA WireIsTyped ==
    ASSUME NEW w, NEW lang, lang \in Protocols, WireInv(w, lang)
    PROVE  w \in Seq(Reply)
  <1> DEFINE n == Size(w)
             S == Reply
  <1>1. IsSequence(w) /\ n \in Nat /\ Len(w) = n
    BY SequencesHaveLengths DEF WireInv, Size
  <1>2. w = [i \in 1..n |-> w[i]]
    BY <1>1, SequenceIsFunction
  <1>3. \A i \in 1..n : w[i] \in S
    BY <1>1, RepliesAreTyped DEF WireInv
  <1> HIDE DEF n, S
  <1>4. w \in Seq(S)
    BY <1>1, <1>2, <1>3
  <1> QED
    BY <1>4 DEF S

\* So the types of the line follow from what is known of it.
LEMMA DialogueTypes == DialogueInv => TypeOK
  <1> SUFFICES ASSUME DialogueInv PROVE TypeOK
    OBVIOUS
  <1>1. protocol \in Protocols /\ pump \in [Pumps -> PumpState]
    BY DEF DialogueInv, PumpsInv
  <1>2. /\ DOMAIN prices \subseteq Addresses
        /\ DOMAIN packetIndexCounter \subseteq Addresses
        /\ \A a \in DOMAIN packetIndexCounter : packetIndexCounter[a] \in Byte
    BY DEF DialogueInv, MastersInv
  <1>3. DOMAIN holder \subseteq Addresses /\ seen \in Histories
    BY DEF DialogueInv, KeptInv
  <1>4. expected \in Pumps
    BY DEF DialogueInv
  <1>5. wire \in Seq(Reply) /\ Len(wire) <= MaxWire
    BY <1>1, WireIsTyped DEF DialogueInv, WireFits
  <1>6. \A s \in state : s.read.id \in Nat /\ s.read.volume \in Nat /\ s.meant.id \in Pumps
    BY DEF DialogueInv, Reported
  <1>7. seen \in [Pumps -> [txn : Nat, ended : Nat]]
    BY <1>3 DEF Histories
  <1> QED
    BY <1>1, <1>2, <1>3, <1>4, <1>5, <1>6, <1>7 DEF TypeOK

\* For every number of pumps and every set of orders a packet of each protocol consists of
\* bytes (no address, length, mask of nozzles or number of a packet, none of which is cut,
\* leaves its byte), every reply on the line is a meaning of one of the pumps, and all that
\* the masters remember is of the line's addresses.
THEOREM LineTypes == Spec => []TypeOK
  <1>1. Init => DialogueInv
    BY DialogueStart
  <1>2. DialogueInv /\ [Next]_vars => DialogueInv'
    BY DialogueStep
  <1>3. DialogueInv => TypeOK
    BY DialogueTypes
  <1> QED
    BY <1>1, <1>2, <1>3, PTL DEF Spec

\* Of every reply of Shelf on the line the master would read what ShelfReadAs says.
LEMMA SlaveIsReadSo == DialogueInv => ShelfEndsCompared
  <1> SUFFICES ASSUME DialogueInv, protocol = "Shelf", NEW i \in DOMAIN wire
               PROVE  ReadAsSaid(Shelf!ParseResponse(wire[i].packet, wire[i].meant.id, prices),
                                 wire[i].meant)
    BY DEF ShelfEndsCompared, ReadAsSaid
  <1> DEFINE m == wire[i].meant
             packet == wire[i].packet
  <1>1. i \in 1..Len(wire)
    <2>1. PICK S : wire \in Seq(S)
      BY DEF DialogueInv, WireInv, IsSequence
    <2> QED
      BY <2>1
  <1>2. SentBy(wire[i], "Shelf")
    BY <1>1 DEF DialogueInv, WireInv
  <1>3. MeantBy(m.id, m, "Shelf") /\ SlaveSaid(packet, m)
    BY <1>2, Zenon DEF SentBy
  <1> HIDE DEF m, packet
  <1>4. PICK counter \in Byte : packet = Slave!PreparePacketVec(m, Addr[m.id], counter)
    BY <1>3 DEF SlaveSaid
  <1>5. ReadAsSaid(Shelf!ParseResponse(packet, m.id, prices), m)
    BY <1>3, <1>4, ShelfReplyRead
  <1> QED
    BY <1>5 DEF m, packet

\* The two ends of Shelf in the program compared: for any pumps and orders and whatever the
\* number of the packet, the master's parser makes of each of its slave's replies, the end
\* of a sale and totals included, the state, the nozzle and the volume that ShelfReadAs
\* names: what the slave meant, or, of a running sale the state, of a done one the nozzle
\* and the volume, of totals the nozzle, what stands in their place.
THEOREM EndsCompared == Spec => []ShelfEndsCompared
  <1>1. Init => DialogueInv
    BY DialogueStart
  <1>2. DialogueInv /\ [Next]_vars => DialogueInv'
    BY DialogueStep
  <1>3. DialogueInv => ShelfEndsCompared
    BY SlaveIsReadSo
  <1> QED
    BY <1>1, <1>2, <1>3, PTL DEF Spec
=============================================================================
