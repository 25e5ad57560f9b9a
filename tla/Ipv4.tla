-------------------------------- MODULE Ipv4 --------------------------------
(***************************************************************************)
(* The text form of IPv4 addresses in library/io_ipv4.c.                   *)
(*                                                                         *)
(* A text is the sequence of its bytes without the final zero, and places  *)
(* in it count from 1; reading at Len(text) + 1 gives that zero.  An       *)
(* address is the sequence of its four bytes, the highest first, whether   *)
(* the code holds it as a number or as bytes.                              *)
(***************************************************************************)
EXTENDS Integers, Sequences, SequencesExt

Byte == 0..255
NoByte == 256
Spaces == {32} \cup 9..13
Plus == 43
Minus == 45
Dot == 46
Slash == 47
Digits == 48..57
Colon == 58
Opening == 91
Closing == 93

At(text, p) == IF p \in DOMAIN text THEN text[p] ELSE 0

\* The first place from p on whose byte is not in S.
Behind(text, p, S) ==
    CHOOSE e \in p..(Len(text) + 1) :
        /\ \A j \in p..(e - 1) : text[j] \in S
        /\ At(text, e) \notin S

From(text, p) == SubSeq(text, p, Len(text))

-----------------------------------------------------------------------------
(* Numbers, as the C library reads and prints them *)

AtMost(n, limit) == IF n > limit THEN limit ELSE n

\* The value of a run of digits; those above the limit count as the limit.
Value(digits, limit) ==
    LET upto[k \in 0..Len(digits)] ==
            IF k = 0 THEN 0 ELSE AtMost(10 * upto[k - 1] + digits[k] - 48, limit)
    IN upto[Len(digits)]

\* Where the digits of a number begin, behind spaces and a sign.
BehindSign(text, p) == IF At(text, p) \in {Plus, Minus} THEN p + 1 ELSE p

FirstDigit(text, p) == BehindSign(text, Behind(text, p, Spaces))

IsNegative(text, p) == At(text, Behind(text, p, Spaces)) = Minus

\* What is read and where it ends, which is at p if there is no number.  One below zero
\* wraps to a large one.
strtoul(text, p) ==
    LET first == FirstDigit(text, p)
        end == Behind(text, first, Digits)
        n == Value(SubSeq(text, first, end - 1), NoByte)
    IN [next |-> IF end = first THEN p ELSE end,
        n |-> IF IsNegative(text, p) /\ n # 0 THEN NoByte ELSE n]

\* atoi, of numbers up to AtoiLimit.
AtoiLimit == 999999

atoi(text, p) ==
    LET first == FirstDigit(text, p)
        n == Value(SubSeq(text, first, Behind(text, first, Digits) - 1), AtoiLimit)
    IN IF IsNegative(text, p) THEN -n ELSE n

Tens == <<1, 10, 100, 1000, 10000>>

\* The number without its last k digits, k < 5.
Shifted(n, k) == n \div Tens[k + 1]

\* sprintf("%d"), of numbers below 100000.
Decimal(n) ==
    LET width == CHOOSE w \in 1..5 : n < 10 * Tens[w] /\ (w = 1 \/ n >= Tens[w])
    IN [i \in 1..width |-> 48 + (Shifted(n, width - i) % 10)]

-----------------------------------------------------------------------------
(* Addresses *)

bput(byte) ==
    IF byte >= 100 THEN <<48 + (byte \div 100), 48 + ((byte % 100) \div 10), 48 + (byte % 10)>>
    ELSE IF byte >= 10 THEN <<48 + (byte \div 10), 48 + (byte % 10)>>
    ELSE <<48 + byte>>

ipv4_itostr(ip) ==
    bput(ip[1]) \o <<Dot>> \o bput(ip[2]) \o <<Dot>> \o bput(ip[3]) \o <<Dot>> \o bput(ip[4])

ipv4_stoa(ip, port) == ipv4_itostr(ip) \o <<Colon>> \o Decimal(port)

\* The number behind those of r, which is where they and their dots end, if there is to
\* be one; none of them counts if it is no number below 256.
Octet(text, r) ==
    LET u == strtoul(text, r.next)
        dot == At(text, u.next) = Dot
    IN IF ~r.more THEN r
       ELSE IF u.next = r.next \/ u.n >= NoByte THEN [nums |-> <<>>, next |-> r.next, more |-> FALSE]
       ELSE [nums |-> Append(r.nums, u.n), next |-> IF dot THEN u.next + 1 ELSE u.next, more |-> dot]

\* Numbers with dots between them, count of them or as many as there are.
Octets(text, start, count) ==
    LET read[k \in 0..count] ==
            IF k = 0 THEN [nums |-> <<>>, next |-> start, more |-> TRUE]
            ELSE Octet(text, read[k - 1])
    IN read[count].nums

\* What stands behind the address is not looked at.
ipv4_isip(text) == Len(Octets(text, 1, 4)) = 4

\* Behind a leading dot up to three numbers, the lower bytes, will do.  Zero is the
\* answer to what is no address.
ipv4_atoi(text) ==
    LET relative == At(text, 1) = Dot
        nums == Octets(text, IF relative THEN 2 ELSE 1, IF relative THEN 3 ELSE 4)
    IN IF relative \/ Len(nums) = 4
       THEN [b \in 1..4 |-> IF b > 4 - Len(nums) THEN nums[b - 4 + Len(nums)] ELSE 0]
       ELSE <<0, 0, 0, 0>>
=============================================================================
