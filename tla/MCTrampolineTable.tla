------------------------- MODULE MCTrampolineTable -------------------------
(* Instances of TrampolineTable for TLC. *)
EXTENDS TrampolineTable, FiniteSets

CONSTANTS
    MaxMappings,  \* lines of /proc/self/maps
    LastPage      \* pages of the address space

Pages == MinAddress \div PageSize .. LastPage

\* All ways to map up to MaxMappings disjoint ranges of pages, and all texts
\* of some sizes that fill the start of one of them.
Cuts == {c \in SUBSET Pages : Cardinality(c) <= 2 * MaxMappings
                                /\ Cardinality(c) % 2 = 0 /\ c # {}}

Nth(c, n) == CHOOSE p \in c : Cardinality({q \in c : q < p}) = n - 1

Lines(c) ==
    [i \in 1 .. Cardinality(c) \div 2 |->
        [start |-> PageSize * Nth(c, 2 * i - 1),
         end |-> PageSize * Nth(c, 2 * i)]]

\* The range k, if there is one, listed as two lines without a gap.
Split(maps, k) ==
    [i \in 1 .. IF k > Len(maps) THEN Len(maps) ELSE Len(maps) + 1 |->
        CASE i < k -> maps[i]
          [] i = k -> [start |-> maps[k].start,
                       end |-> maps[k].start + PageSize]
          [] i = k + 1 -> [start |-> maps[k].start + PageSize,
                           end |-> maps[k].end]
          [] OTHER -> maps[i - 1]]

Listings ==
    LET plain == {Lines(c) : c \in Cuts}
    IN  plain \cup {l \in {Split(p, k) : p \in plain, k \in 1 .. MaxMappings} :
                      \A i \in DOMAIN l : l[i].start < l[i].end}

MCSpaces ==
    {[maps |-> s[1], text_start |-> s[1][s[2]].start,
      text_end |-> s[1][s[2]].end - s[3]] :
        s \in {r \in Listings \X (1 .. MaxMappings + 1)
                       \X {1, PageSize - 1} :
                      /\ r[2] <= Len(r[1])
                      /\ r[1][r[2]].end - r[1][r[2]].start <= Int32Max}}

MCEnv == BOOLEAN
=============================================================================
