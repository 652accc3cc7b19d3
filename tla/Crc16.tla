------------------------------- MODULE Crc16 --------------------------------
(* calc_crc and its table. *)
EXTENDS Naturals, Sequences

\* a ^ b, of 16 bits
Xor(a, b) ==
    LET bit(p) == p * ((a \div p + b \div p) % 2)
        four(p) == bit(p) + bit(2 * p) + bit(4 * p) + bit(8 * p)
    IN four(1) + four(16) + four(256) + four(4096)

\* CRC-16 CCITT, polynomial 0x1021: the remainder of a byte.
Remainder(byte) ==
    LET shifted[n \in 0..8] ==
            IF n = 0 THEN byte * 256
            ELSE LET before == shifted[n - 1]
                     twice == (2 * before) % 65536
                 IN IF before >= 32768 THEN Xor(twice, 4129) ELSE twice
    IN shifted[8]

\* The table of that CRC, and the one in the code: there the last hexadecimal
\* digit of every eighth entry is missing.
CcittTable == [i \in 0..255 |-> Remainder(i)]
Crc16Table == [i \in 0..255 |-> IF i % 8 = 0 THEN CcittTable[i] \div 16 ELSE CcittTable[i]]

CrcBy(table, bytes) ==
    LET crc[n \in 0..Len(bytes)] ==
            IF n = 0 THEN 65535
            ELSE LET before == crc[n - 1]
                 IN Xor((before % 256) * 256, table[Xor(before \div 256, bytes[n])])
    IN crc[Len(bytes)]

calc_crc(bytes) == CrcBy(Crc16Table, bytes)

\* The CRC the comment above calc_crc names.
Ccitt(bytes) == CrcBy(CcittTable, bytes)
=============================================================================
