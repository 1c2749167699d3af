----------------------- MODULE TrampolineTableProofs -----------------------
(***************************************************************************)
(* Theorems about TrampolineTable, for every address space and every value *)
(* of the constants.                                                       *)
(***************************************************************************)
EXTENDS TrampolineTable, TLAPS

\* Rounding down to a multiple of the page size and adding a page goes beyond
\* the number, by at most a page.
LEMMA RoundUp ==
    ASSUME NEW x \in Nat, NEW p \in Nat \ {0}
    PROVE  /\ (x \div p) * p + p \in Nat
           /\ (x \div p) * p <= x
           /\ (x \div p) * p + p > x
<1>1. (x \div p) * p <= x
  OBVIOUS
<1>2. (x \div p) * p + p > x
  OBVIOUS
<1>3. (x \div p) * p \in Int
  OBVIOUS
<1> QED BY <1>1, <1>2, <1>3

\* The search starts at an address from which the table reaches the text.
LEMMA FirstGuess ==
    ASSUME SpaceOK(space)
    PROVE  /\ first_guess \in Nat
           /\ first_guess > space.text_end - Int32Max
           /\ first_guess + Size < space.text_start + Int32Max
<1> DEFINE lowest == space.text_end - Int32Max
           rounded == (lowest \div PageSize) * PageSize + PageSize
           page == IF space.text_end < Int32Max THEN 0 ELSE rounded
<1>1. /\ space.text_start \in Nat /\ space.text_end \in Nat
      /\ MinAddress <= space.text_start
      /\ space.text_start <= space.text_end
      /\ space.text_end - space.text_start < Int32Max
  BY DEF SpaceOK
<1>2. /\ MinAddress \in Nat /\ Int32Max \in Nat
      /\ PageSize \in Nat \ {0} /\ Size \in Nat
      /\ PageSize + Size < Int32Max
  BY TableAssumption
<1>3. first_guess = IF page < MinAddress THEN MinAddress ELSE page
  BY DEF first_guess
<1>4. CASE space.text_end < Int32Max
  BY <1>1, <1>2, <1>3, <1>4
<1>5. CASE ~(space.text_end < Int32Max)
  <2>1. lowest \in Nat
    BY <1>1, <1>2, <1>5
  <2>2. rounded \in Nat /\ rounded > lowest /\ rounded <= lowest + PageSize
    <3>1. /\ (lowest \div PageSize) * PageSize + PageSize \in Nat
          /\ (lowest \div PageSize) * PageSize <= lowest
          /\ (lowest \div PageSize) * PageSize + PageSize > lowest
      BY <1>2, <2>1, RoundUp
    <3>2. (lowest \div PageSize) * PageSize \in Int
      BY <1>2, <2>1
    <3> QED BY <1>2, <2>1, <3>1, <3>2
  <2>3. page = rounded
    BY <1>5
  <2> HIDE DEF rounded, page
  <2> QED BY <1>1, <1>2, <1>3, <2>1, <2>2, <2>3
<1> QED BY <1>4, <1>5

\* The bounds of a mapping are addresses.
LEMMA MappingTypes ==
    ASSUME SpaceOK(space), NEW i \in 1 .. Len(space.maps)
    PROVE  space.maps[i].start \in Nat /\ space.maps[i].end \in Nat
<1>1. space.maps \in Seq(mapping)
  BY DEF SpaceOK
<1>2. space.maps[i] \in mapping
  BY <1>1
<1> QED BY <1>2 DEF mapping

\* Between the guess and the end of a mapping that the table would overlap
\* there is no place for the table.
LEMMA SkippedIsTaken ==
    ASSUME SpaceOK(space), guess \in Nat,
           NEW i \in 1 .. Len(space.maps), ~Above(space.maps[i]),
           NEW g \in guess .. space.maps[i].end - 1
    PROVE  ~Free(g)
<1>1. space.maps[i].start \in Nat /\ space.maps[i].end \in Nat
  BY MappingTypes
<1>2. Size \in Nat
  BY TableAssumption
<1>3. space.maps[i].start < guess + Size
  BY <1>1, <1>2 DEF Above
<1>4. g \in Nat /\ guess <= g /\ g < space.maps[i].end
  BY <1>1
<1> QED BY SMTT(30), <1>1, <1>2, <1>3, <1>4 DEF Free

\* Nothing is decided before the search.
LEMMA InitInv == Init => ScanInv
<1> SUFFICES ASSUME Init PROVE ScanInv
  OBVIOUS
<1>1. SpaceOK(space)
  BY TableAssumption DEF Init
<1>2. space.maps \in Seq(mapping)
  BY <1>1 DEF SpaceOK
<1>3. line \in 1 .. Len(space.maps) + 1
  BY <1>2 DEF Init
<1> QED BY <1>1, <1>3 DEF Init, ScanInv, HasTable, NULL


\* The choice of the first guess establishes the invariant of the loop.
LEMMA BeginInv == ScanInv /\ Begin => ScanInv'
<1> SUFFICES ASSUME ScanInv, Begin PROVE ScanInv'
  OBVIOUS
<1>1. space' = space /\ line' = line /\ trampoline_table' = trampoline_table
  BY DEF Begin
<1>2. SpaceOK(space) /\ line \in 1 .. Len(space.maps) + 1 /\ line = 1
  BY DEF ScanInv, Begin
<1>3. guess \in Nat /\ failure # "unable to find place for trampoline table"
  BY DEF ScanInv, Begin
<1>4. uses_trampoline_table' \in BOOLEAN
  BY TableAssumption DEF Begin
<1>5. SpaceOK(space)' /\ line' \in 1 .. Len(space'.maps) + 1 /\ line' = 1
  BY <1>1, <1>2
<1>6. first_guess' = first_guess /\ first_guess \in Nat
  BY <1>1, <1>2, FirstGuess DEF first_guess
<1>7. CASE ~uses_trampoline_table'
  BY <1>3, <1>4, <1>5, <1>7 DEF Begin, ScanInv, HasTable
<1>8. CASE uses_trampoline_table'
  <2>1. guess' = first_guess
    BY <1>8 DEF Begin
  <2>2. pc' \in {"scan", "aborted"}
    BY <1>8 DEF Begin, xabort
  <2>3. failure' # "unable to find place for trampoline table"
    BY <1>3, <1>8 DEF Begin, xabort
  <2>4. \A g \in first_guess' .. guess' - 1 : ~Free(g)'
    BY <1>6, <2>1
  <2>5. guess' \in Nat /\ first_guess' <= guess' /\ guess' = first_guess'
    BY <1>6, <2>1
  <2>6. \A i \in 1 .. line' - 1 : space'.maps[i].end <= guess'
    BY <1>5
  <2> QED BY <1>5, <1>8, <2>2, <2>3, <2>4, <2>5, <2>6 DEF ScanInv, HasTable
<1> QED BY <1>7, <1>8

\* One line of /proc/self/maps.
LEMMA ScanStepInv == ScanInv /\ Scan => ScanInv'
<1> SUFFICES ASSUME ScanInv, Scan PROVE ScanInv'
  OBVIOUS
<1>1. /\ space' = space /\ trampoline_table' = trampoline_table
      /\ uses_trampoline_table' = uses_trampoline_table
  BY DEF Scan
<1>2. /\ SpaceOK(space) /\ pc = "scan" /\ uses_trampoline_table
      /\ guess = first_guess \/ ~TooFar(guess)
      /\ failure # "unable to find place for trampoline table"
  BY DEF ScanInv, Scan
<1>3. guess \in Nat /\ first_guess <= guess
  BY DEF ScanInv, Scan
<1>4. Len(space.maps) \in Nat
  <2>1. space.maps \in Seq(mapping)
    BY <1>2 DEF SpaceOK
  <2> QED BY <2>1
<1>5. line \in 1 .. Len(space.maps) /\ line' = line + 1
  <2>1. /\ line \in 1 .. Len(space.maps) + 1 /\ line <= Len(space.maps)
        /\ line' = line + 1
    BY DEF ScanInv, Scan
  <2> QED BY <1>4, <2>1
<1>6. /\ first_guess' = first_guess /\ first_guess \in Nat
      /\ \A g : Free(g)' <=> Free(g)
      /\ \A g : TooFar(g)' <=> TooFar(g)
  BY <1>1, <1>2, FirstGuess DEF first_guess, Free, TooFar
<1>7. line' \in 1 .. Len(space'.maps) + 1
  BY <1>1, <1>4, <1>5
<1>8. SpaceOK(space)' /\ line' \in 1 .. Len(space'.maps) + 1
  BY <1>1, <1>2, <1>7
<1>9. PICK m : m = space.maps[line]
  OBVIOUS
<1>10. m.start \in Nat /\ m.end \in Nat /\ m.start < m.end
  BY <1>2, <1>5, <1>9, MappingTypes DEF SpaceOK
<1>11. \A i \in 1 .. line - 1 : i \in 1 .. Len(space.maps) /\ i < line
  BY <1>4, <1>5
<1>12. \A i \in 1 .. line - 1 :
          space.maps[i].end <= guess /\ space.maps[i].end <= m.start
  <2>1. \A i \in 1 .. line - 1 : space.maps[i].end <= guess
    BY <1>2 DEF ScanInv
  <2>2. \A i \in 1 .. line - 1 : space.maps[i].end <= space.maps[line].start
    BY <1>2, <1>5, <1>11 DEF SpaceOK
  <2> QED BY <1>9, <2>1, <2>2
<1>13. \A g \in first_guess .. guess - 1 : ~Free(g)
  BY <1>2 DEF ScanInv
<1>14. \A i \in 1 .. line - 1 : space.maps[i].end \in Nat
  BY <1>2, <1>11, MappingTypes
<1>15. CASE Below(m) /\ UNCHANGED <<pc, guess, failure>>
  <2>1. \A i \in 1 .. line' - 1 : space.maps[i].end <= guess
    <3> SUFFICES ASSUME NEW i \in 1 .. line' - 1
                 PROVE  space.maps[i].end <= guess
      OBVIOUS
    <3>1. i = line \/ i \in 1 .. line - 1
      BY <1>5
    <3>2. m.end <= guess
      BY <1>3, <1>10, <1>15 DEF Below
    <3> QED BY <1>9, <1>12, <3>1, <3>2
  <2> QED BY <1>1, <1>2, <1>3, <1>6, <1>8, <1>13, <1>15, <2>1 DEF ScanInv, HasTable
<1>16. CASE ~Below(m) /\ Above(m) /\ pc' = "found" /\ UNCHANGED <<guess, failure>>
  <2>1. Size \in Nat
    BY TableAssumption
  <2>2. ASSUME NEW i \in 1 .. Len(space.maps)
        PROVE  space.maps[i].end <= guess \/ guess + Size <= space.maps[i].start
    <3>1. space.maps[i].start \in Nat /\ space.maps[i].end \in Nat
      BY <1>2, MappingTypes
    <3>2. guess + Size <= m.start
      BY <1>3, <1>10, <1>16, <2>1 DEF Above
    <3>3. CASE i < line
      BY <1>5, <1>12, <3>3
    <3>4. CASE i = line
      BY <1>9, <3>2, <3>4
    <3>5. CASE i > line
      <4>1. m.end <= space.maps[i].start
        BY <1>2, <1>5, <1>9, <3>5 DEF SpaceOK
      <4> QED BY SMTT(30), <1>3, <1>10, <2>1, <3>1, <3>2, <4>1
    <3> QED BY <1>5, <3>3, <3>4, <3>5
  <2>3. Free(guess)
    BY <2>2 DEF Free
  <2> QED BY <1>1, <1>2, <1>3, <1>6, <1>8, <1>13, <1>16, <2>3 DEF ScanInv, HasTable
<1>17. CASE /\ ~Below(m) /\ ~Above(m) /\ guess' = m.end
            /\ \/ /\ TooFar(m.end)
                  /\ xabort("unable to find place for trampoline table")
               \/ ~TooFar(m.end) /\ UNCHANGED <<pc, failure>>
  <2>1. guess <= m.end
    <3>1. ~Below(m)
      BY <1>17
    <3> QED BY <1>3, <1>10, <3>1 DEF Below
  <2>2. \A g \in guess .. m.end - 1 : ~Free(g)
    BY <1>2, <1>3, <1>5, <1>9, <1>17, SkippedIsTaken
  <2>3. \A g \in first_guess .. m.end - 1 : ~Free(g)
    <3> SUFFICES ASSUME NEW g \in first_guess .. m.end - 1
                 PROVE  ~Free(g)
      OBVIOUS
    <3>1. first_guess \in Nat
      BY <1>6
    <3>2. g \in first_guess .. guess - 1 \/ g \in guess .. m.end - 1
      BY <1>3, <1>10, <2>1, <3>1
    <3> QED BY <1>13, <2>2, <3>2
  <2>4. guess' \in Nat /\ first_guess <= guess'
    <3>1. guess' = m.end /\ first_guess \in Nat
      BY <1>6, <1>17
    <3> QED BY <1>3, <1>10, <2>1, <3>1
  <2>5. \A i \in 1 .. line' - 1 : space.maps[i].end <= m.end
    <3> SUFFICES ASSUME NEW i \in 1 .. line' - 1
                 PROVE  space.maps[i].end <= m.end
      OBVIOUS
    <3>1. i = line \/ i \in 1 .. line - 1
      BY <1>5
    <3> QED BY <1>9, <1>10, <1>12, <1>14, <3>1
  <2>6. /\ \A i \in 1 .. line' - 1 : space'.maps[i].end <= guess'
        /\ \A g \in first_guess' .. guess' - 1 : ~Free(g)'
    BY <1>1, <1>6, <1>17, <2>3, <2>5
  <2>7. CASE TooFar(m.end) /\ xabort("unable to find place for trampoline table")
    BY <1>1, <1>2, <1>6, <1>8, <1>17, <2>4, <2>6, <2>7
       DEF ScanInv, HasTable, xabort
  <2>8. CASE ~TooFar(m.end) /\ UNCHANGED <<pc, failure>>
    BY ZenonT(60), <1>1, <1>2, <1>6, <1>8, <1>17, <2>4, <2>6, <2>8 DEF ScanInv, HasTable
  <2> QED BY <1>17, <2>7, <2>8
<1> QED BY <1>9, <1>15, <1>16, <1>17 DEF Scan

\* When there is no further line, no mapping reaches beyond the guess.
LEMMA ScanEndInv == ScanInv /\ ScanEnd => ScanInv'
<1> SUFFICES ASSUME ScanInv, ScanEnd PROVE ScanInv'
  OBVIOUS
<1>1. \A i \in 1 .. Len(space.maps) : space.maps[i].end <= guess
  <2>1. Len(space.maps) \in Nat
    <3>1. space.maps \in Seq(mapping)
      BY DEF ScanInv, SpaceOK
    <3> QED BY <3>1
  <2>2. line \in 1 .. Len(space.maps) + 1 /\ line > Len(space.maps)
    BY DEF ScanInv, ScanEnd
  <2>3. line - 1 = Len(space.maps)
    BY <2>1, <2>2
  <2> QED BY <2>3 DEF ScanInv, ScanEnd
<1>2. Free(guess)
  BY SMTT(30), <1>1 DEF Free
<1> QED BY <1>2 DEF ScanInv, ScanEnd, HasTable, Free, first_guess, TooFar

\* Mapping the table keeps what the search found out.
LEMMA MapInv == ScanInv /\ Map => ScanInv'
BY ZenonT(60) DEF ScanInv, Map, HasTable, Free, first_guess, TooFar, xabort

\* ScanInv is an invariant of the search, for every address space, size of the
\* table and range of a jump.
THEOREM Invariance == Spec => []ScanInv
<1>1. Init => ScanInv
  BY InitInv
<1>2. ScanInv /\ [Next]_vars => ScanInv'
  <2> SUFFICES ASSUME ScanInv, [Next]_vars PROVE ScanInv'
    OBVIOUS
  <2>1. CASE UNCHANGED vars
    BY ZenonT(60), <2>1 DEF ScanInv, vars, HasTable, Free, first_guess, TooFar
  <2> QED BY <2>1, BeginInv, ScanStepInv, ScanEndInv, MapInv DEF Next
<1> QED BY <1>1, <1>2, PTL DEF Spec

\* Mapping the table with MAP_FIXED replaces no mapping.
THEOREM ReplacesNothing == Spec => []TableReplacesNothing
<1>1. ScanInv => TableReplacesNothing
  BY DEF ScanInv, TableReplacesNothing
<1> QED BY <1>1, Invariance, PTL

\* Every jump of the text reaches every byte of the table.
THEOREM Reachable == Spec => []TableReachable
<1>1. ScanInv => TableReachable
  <2> SUFFICES ASSUME ScanInv, HasTable,
                      NEW from \in space.text_start ..
                                     space.text_end + 1 - JUMP_INS_SIZE,
                      NEW to \in trampoline_table ..
                                     trampoline_table + Size - 1
               PROVE  /\ -Int32Max - 1 <= to - (from + JUMP_INS_SIZE)
                      /\ to - (from + JUMP_INS_SIZE) <= Int32Max
    BY DEF TableReachable
  <2>1. /\ SpaceOK(space) /\ guess \in Nat /\ trampoline_table = guess
        /\ first_guess <= guess
        /\ guess = first_guess \/ ~TooFar(guess)
    BY DEF ScanInv
  <2>2. /\ first_guess \in Nat
        /\ first_guess > space.text_end - Int32Max
        /\ first_guess + Size < space.text_start + Int32Max
    BY <2>1, FirstGuess
  <2>3. /\ space.text_start \in Nat /\ space.text_end \in Nat
        /\ Size \in Nat /\ Int32Max \in Nat
    BY <2>1, TableAssumption DEF SpaceOK
  <2>4. guess + Size < space.text_start + Int32Max
    BY <2>1, <2>2, <2>3 DEF TooFar
  <2>5. guess > space.text_end - Int32Max
    BY <2>1, <2>2, <2>3
  <2>6. /\ from \in Int /\ space.text_start <= from
        /\ from + JUMP_INS_SIZE <= space.text_end + 1
        /\ to \in Int /\ guess <= to /\ to < guess + Size
    BY <2>1, <2>3 DEF JUMP_INS_SIZE
  <2> QED BY <2>1, <2>3, <2>4, <2>5, <2>6 DEF JUMP_INS_SIZE
<1> QED BY <1>1, Invariance, PTL

\* The last element of a range, and the others.
LEMMA LastOrBefore ==
    ASSUME NEW a \in Nat, NEW b \in Nat, NEW g \in a .. b
    PROVE  g \in a .. b - 1 \/ g = b
OBVIOUS

\* The search gives up only if every place from the first guess on is taken or
\* too far away.
THEOREM GivesUpFull == Spec => []GivesUpOnlyIfFull
<1>1. ScanInv => GivesUpOnlyIfFull
  <2> SUFFICES ASSUME ScanInv,
                      failure = "unable to find place for trampoline table",
                      NEW g \in first_guess .. guess
               PROVE  ~Free(g) \/ g + Size >= space.text_start + Int32Max
    BY DEF GivesUpOnlyIfFull
  <2>1. pc = "aborted" /\ uses_trampoline_table /\ TooFar(guess)
        /\ SpaceOK(space) /\ guess \in Nat
    BY DEF ScanInv
  <2>2. first_guess \in Nat
    BY <2>1, FirstGuess
  <2>3. g \in first_guess .. guess - 1 \/ g = guess
    <3>1. guess \in Nat
      BY <2>1
    <3> QED BY <2>2, <3>1, LastOrBefore
  <2>4. \A h \in first_guess .. guess - 1 : ~Free(h)
    BY <2>1 DEF ScanInv
  <2> QED BY <2>1, <2>3, <2>4 DEF TooFar
<1> QED BY <1>1, Invariance, PTL
=============================================================================
