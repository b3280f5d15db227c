------------------------------- MODULE Fat12 -------------------------------
(***************************************************************************)
(* The file allocation table of a FAT12 disk: two 12-bit entries share     *)
(* three bytes.  get_FAT_entry is the decoding of a3/diskinfo.c and        *)
(* a3/disklist.c; Pack is the layout they decode, little endian, as a      *)
(* formatting tool writes it.                                              *)
(***************************************************************************)
EXTENDS Integers

Byte == 0 .. 255
Entry12 == 0 .. 4095

\* Marks of the table: free cluster, and the end of a chain.
FreeMark == 0
EndMark == 4095

\* The bytes of a table of entries link, which is a function over 0 .. n; the
\* last byte may have half an entry that is not there.
Pack(link, n) ==
  LET e(i) == IF i <= n THEN link[i] ELSE FreeMark
  IN  [b \in 0 .. (3 * n) \div 2 + 1 |->
         IF b % 3 = 0 THEN e(2 * (b \div 3)) % 256
         ELSE IF b % 3 = 1 THEN (e(2 * (b \div 3)) \div 256) + 16 * (e(2 * (b \div 3) + 1) % 16)
         ELSE e(2 * (b \div 3) + 1) \div 16]

\* Mutant of get_FAT_entry: the high half of the shared byte is not masked.
UnmaskedEntry(p, n) ==
  LET b == (3 * n) \div 2
  IN  IF n % 2 = 0 THEN 256 * p[b + 1] + p[b]
                   ELSE (p[b] \div 16) + 16 * p[b + 1]

\* Entry n of the table at p.
get_FAT_entry(p, n) ==
  LET b == (3 * n) \div 2
  IN  IF n % 2 = 0 THEN 256 * (p[b + 1] % 16) + p[b]
                   ELSE (p[b] \div 16) + 16 * p[b + 1]

\* Mutant of InChain: the marks for bad clusters and the end are clusters, too.
InAnyChain(loc) == loc <= 4095

\* Whether a walk over a chain goes on to this cluster.
InChain(loc) == loc <= 4080
=============================================================================
