-------------------------- MODULE TrampolineTable --------------------------
(***************************************************************************)
(* allocate_trampoline_table() of intercept_desc.c: look through the lines *)
(* of /proc/self/maps for a gap close to the text section of an object and *)
(* map the table there with MAP_FIXED, which replaces what is there.       *)
(***************************************************************************)
EXTENDS Integers, Sequences

CONSTANTS
    Spaces,       \* the address spaces: mappings, and a text section in one
    MinAddress,   \* get_min_address()
    Int32Max,     \* INT32_MAX
    PageSize,     \* 0x1000
    Size,         \* 64 pages
    EnvModes      \* whether INTERCEPT_NO_TRAMPOLINE permits the table

JUMP_INS_SIZE == 5
NULL == 0

mapping == [start : Nat, end : Nat]

\* The kernel lists disjoint mappings in ascending order; nothing can be mapped
\* below mmap_min_addr.
SpaceOK(s) ==
    /\ s.maps \in Seq(mapping)
    /\ \A i \in 1 .. Len(s.maps) : s.maps[i].start < s.maps[i].end
    /\ \A i, j \in 1 .. Len(s.maps) :
          i < j => s.maps[i].end <= s.maps[j].start
    /\ s.text_start \in Nat /\ s.text_end \in Nat
    /\ MinAddress <= s.text_start
    /\ s.text_start <= s.text_end
    /\ s.text_end - s.text_start < Int32Max

ASSUME TableAssumption ==
    /\ MinAddress \in Nat
    /\ Int32Max \in Nat /\ PageSize \in Nat \ {0} /\ Size \in Nat
    /\ PageSize + Size < Int32Max
    /\ EnvModes \subseteq BOOLEAN
    /\ \A s \in Spaces : SpaceOK(s)

VARIABLES
    space,                  \* the address space as /proc/self/maps shows it
    pc,                     \* "begin", "scan", "found", "done" or "aborted"
    uses_trampoline_table,
    guess,                  \* where the table may go
    line,                   \* the next line of /proc/self/maps
    trampoline_table,
    failure                 \* the message of xabort

vars == <<space, pc, uses_trampoline_table, guess, line, trampoline_table,
          failure>>

-----------------------------------------------------------------------------
first_guess_below ==
    LET lowest == space.text_end - Int32Max
    IN  IF space.text_end < Int32Max THEN MinAddress
        ELSE (lowest \div PageSize) * PageSize

\* The lowest page that the end of the text can reach with a 32 bit jump, but
\* not below the lowest address that can be mapped.
first_guess ==
    LET lowest == space.text_end - Int32Max
        page == IF space.text_end < Int32Max THEN 0
                ELSE (lowest \div PageSize) * PageSize + PageSize
    IN  IF page < MinAddress THEN MinAddress ELSE page

Below(m) == m.end < guess
Above_start(m) == m.start >= guess
Above(m) == m.start >= guess + Size

TooFar_table(g) == g + 3 * Size >= space.text_start + Int32Max
TooFar(g) == g + Size >= space.text_start + Int32Max

xabort(message) == pc' = "aborted" /\ failure' = message

Init ==
    /\ space \in Spaces
    /\ pc = "begin"
    /\ uses_trampoline_table = FALSE
    /\ guess = NULL
    /\ line = 1
    /\ trampoline_table = NULL
    /\ failure = "none"

Begin ==
    /\ pc = "begin"
    /\ uses_trampoline_table' \in EnvModes
    /\ \/ /\ ~uses_trampoline_table'
          /\ pc' = "done"
          /\ UNCHANGED <<guess, failure>>
       \/ /\ uses_trampoline_table'
          /\ guess' = first_guess
          /\ \/ pc' = "scan" /\ UNCHANGED failure
             \/ xabort("fopen /proc/self/maps")
    /\ UNCHANGED <<space, line, trampoline_table>>

\* One line of /proc/self/maps.
Scan ==
    /\ pc = "scan"
    /\ line <= Len(space.maps)
    /\ line' = line + 1
    /\ LET m == space.maps[line]
       IN  \/ Below(m) /\ UNCHANGED <<pc, guess, failure>>
           \/ /\ ~Below(m) /\ Above(m)
              /\ pc' = "found"
              /\ UNCHANGED <<guess, failure>>
           \/ /\ ~Below(m) /\ ~Above(m)
              /\ guess' = m.end
              /\ \/ /\ TooFar(m.end)
                    /\ xabort("unable to find place for trampoline table")
                 \/ ~TooFar(m.end) /\ UNCHANGED <<pc, failure>>
    /\ UNCHANGED <<space, uses_trampoline_table, trampoline_table>>

ScanEnd ==
    /\ pc = "scan"
    /\ line > Len(space.maps)
    /\ pc' = "found"
    /\ UNCHANGED <<space, uses_trampoline_table, guess, line,
                   trampoline_table, failure>>

Map ==
    /\ pc = "found"
    /\ \/ pc' = "done" /\ trampoline_table' = guess /\ UNCHANGED failure
       \/ /\ xabort("unable to allocate space for trampoline table")
          /\ UNCHANGED trampoline_table
    /\ UNCHANGED <<space, uses_trampoline_table, guess, line>>

Next == Begin \/ Scan \/ ScanEnd \/ Map

Spec == Init /\ [][Next]_vars
-----------------------------------------------------------------------------
(***************************************************************************)
(* Properties.                                                             *)
(***************************************************************************)
Free(g) ==
    \A i \in 1 .. Len(space.maps) :
        space.maps[i].end <= g \/ g + Size <= space.maps[i].start

HasTable == pc = "done" /\ uses_trampoline_table

\* The table goes where nothing was mapped: mapping it with MAP_FIXED replaces
\* no part of the program.
TableReplacesNothing == HasTable => Free(trampoline_table)

\* Every jump that fits into the text can reach every byte of the table with a
\* 32 bit displacement, in both directions: create_jump never finds the
\* trampolines too far away.
TableReachable ==
    HasTable =>
        \A from \in space.text_start .. space.text_end + 1 - JUMP_INS_SIZE,
           to \in trampoline_table .. trampoline_table + Size - 1 :
            /\ -Int32Max - 1 <= to - (from + JUMP_INS_SIZE)
            /\ to - (from + JUMP_INS_SIZE) <= Int32Max

\* The process is only aborted for want of a place if there is none: every
\* address from the first guess on is taken or too far away.
GivesUpOnlyIfFull ==
    failure = "unable to find place for trampoline table" =>
        \A g \in first_guess .. guess :
            ~Free(g) \/ g + Size >= space.text_start + Int32Max

\* Every address below the guess was found to be taken.  Together with what
\* the lines read so far leave, it is the invariant of the loop.
ScanInv ==
    /\ SpaceOK(space)
    /\ pc \in {"begin", "scan", "found", "done", "aborted"}
    /\ uses_trampoline_table \in BOOLEAN
    /\ guess \in Nat
    /\ line \in 1 .. Len(space.maps) + 1
    /\ pc = "begin" => line = 1
    /\ pc = "scan" =>
          \A i \in 1 .. line - 1 : space.maps[i].end <= guess
    /\ pc = "found" => Free(guess)
    /\ pc \in {"scan", "found"} =>
          /\ uses_trampoline_table
          /\ first_guess <= guess
          /\ guess = first_guess \/ ~TooFar(guess)
    /\ HasTable =>
          /\ trampoline_table = guess
          /\ Free(guess)
          /\ first_guess <= guess
          /\ guess = first_guess \/ ~TooFar(guess)
    /\ pc # "begin" /\ uses_trampoline_table =>
          \A g \in first_guess .. guess - 1 : ~Free(g)
    /\ failure = "unable to find place for trampoline table" =>
          pc = "aborted" /\ uses_trampoline_table /\ TooFar(guess)
=============================================================================
