---------------------------- MODULE MCHashTable ----------------------------
(***************************************************************************)
(* Small instances of the hash table for TLC.  The capacity limits are     *)
(* scaled down from 256 and 1M.  The keys are real ones and so are their   *)
(* hashes, computed as Hasher.c does; they are chosen for which of them    *)
(* collide, before and after the table is resized or hashed again.         *)
(***************************************************************************)
EXTENDS HashTableMap, TLC

CONSTANTS x1, x2, x3, x4

Hasher == INSTANCE Hasher

\* TLC keeps the value of a definition, not that of a lazy function or of what
\* a constant is replaced by: hence <<>> @@ f, and a name for the table.
Tabulated(f) == <<>> @@ f
Table  == Tabulated([m \in Method |-> Tabulated([k \in Key |-> Hasher!HashWith(m, k)])])
Hashes == Table

\* "leap", "hash" and "header".  In method 10 (elf, the default) they go to the
\* slots 0, 0, 0 of two and 0, 0, 2 of four or eight; in method 9 (one at a
\* time), where two of the hashes are negative, to 1, 0, 1 and 1, 0, 3.  So
\* chains are long, and reorg meets targets that it has not treated yet.
Mixed == {<<108, 101, 97, 112>>, <<104, 97, 115, 104>>, <<104, 101, 97, 100, 101, 114>>}

\* "hash", "map", "fox" and "item".  In method 10 the first three share slot 0
\* of four and of eight, and the last is alone in slot 1 or 5: the chains are
\* long and the table is resized, and no item that moves has another behind it.
Orderly == {<<104, 97, 115, 104>>, <<109, 97, 112>>, <<102, 111, 120>>,
            <<105, 116, 101, 109>>}

\* No RCAP chunk, and minima at, between and beyond the limits.
Requests == {-1, 1, 3, 9}

AnyOrder == Permutations(Item)

(* HashTable computes sizes and slots with numbers, Utils.c and getHash     *)
(* with bits; they are the same, at the edges of every size too.            *)

Edges == UNION {{p - 1, p, p + 1} : p \in PowersOfTwo \ {LargestPower}}

ASSUME SizesAreBitwise ==
    \A n \in Edges :
        /\ Hasher!RoundUpBits(n) = RoundUp2Power(n)
        /\ n > 0 => Hasher!CalcHashMask(n) = RoundUp2Power(n) - 1

\* What follows from the definitions of the methods: elf clears the four highest
\* bits, and as 33 is 1 modulo 32, in small tables Bernstein's method chooses the
\* slots that adding the bytes does, and the modified one those of xor.  The
\* last line is a published value of the method of Fowler, Noll and Vo for "a".
Samples == Mixed \cup Orderly \cup {<<0>>, <<255, 254>>, <<128, 255, 1, 77, 200, 255, 255>>}

ASSUME MethodsAgree ==
    \A k \in Samples :
        /\ Hasher!Elf(k) \in 0 .. 268435455
        /\ Hasher!Bernstein(k) % 32 = Hasher!Additive(k) % 32
        /\ Hasher!ModifiedBernstein(k) % 32 = Hasher!XorAll(k) % 32
        /\ Hasher!XorAll(k) % 2 = Hasher!Additive(k) % 2
        /\ Hasher!HashWith(11, k) = 0
        /\ Hasher!HashWith(8, <<97>>) = 84696446

=============================================================================
