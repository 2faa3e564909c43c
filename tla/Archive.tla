------------------------------ MODULE Archive ------------------------------
(***************************************************************************)
(* The ar archive that is linked into the kernel: how ar lays it out, and  *)
(* how init_fs (fs.c) and atoi (util.c) read a header.                     *)
(***************************************************************************)
EXTENDS Integers, Sequences, FiniteSetsExt

CONSTANTS
  MAGIC,  \* bytes of AR_MAGIC (8)
  HDR,    \* sizeof(struct ar_hdr) (60)
  RADIX   \* of the numbers in a header (10)

ASSUME ArchiveAssumption ==
  /\ MAGIC \in Nat /\ MAGIC % 2 = 0
  /\ HDR \in Nat \ {0} /\ HDR % 2 = 0
  /\ RADIX \in Nat /\ RADIX >= 2

SPACE == -1

NUL == -2

(* The size field as ar writes it: digits, padded with spaces. *)
SizeField(n) ==
  LET digits[k \in 0 .. n] == IF k < RADIX THEN <<k>>
                              ELSE Append(digits[k \div RADIX], k % RADIX)
  IN digits[n] \o <<SPACE, SPACE>>

(* Where ar puts the i-th member of an archive, and where the archive ends:  *)
(* each is at the next even byte.                                           *)
Start(members, i) ==
  LET at[k \in 1 .. Len(members) + 1] ==
        IF k = 1 THEN MAGIC ELSE at[k - 1] + 2 * ((HDR + members[k - 1].size + 1) \div 2)
  IN at[i]

fsar_end(members) == Start(members, Len(members) + 1)

---------------------------------------------------------------------------
null_out_space(field) == [k \in DOMAIN field |-> IF field[k] = SPACE THEN NUL ELSE field[k]]

(* The string ends at the first NUL behind its first character; the digits  *)
(* are added from the last to the first.                                    *)
atoi(str) ==
  LET n == Min({k \in 2 .. Len(str) : str[k] = NUL}) - 1
      sum[k \in 0 .. n] ==
        IF k = 0 THEN [ret |-> 0, base |-> 1]
        ELSE [ret |-> sum[k - 1].ret + sum[k - 1].base * str[n - k + 1],
              base |-> sum[k - 1].base * RADIX]
  IN sum[n].ret

(* The name ends at the first '/'.  ar's symbol table is the member "/".    *)
ParsedName(m) == IF m.name = "/" THEN "" ELSE m.name

ParsedSize(m) == atoi(null_out_space(SizeField(m.size)))

(* Mutant: members are not aligned to even bytes. *)
NextHeader_unaligned(arp, size) == arp + HDR + size

NextHeader(arp, size) == arp + HDR + size + (IF size % 2 = 1 THEN 1 ELSE 0)
===========================================================================
