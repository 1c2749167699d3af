------------------------- MODULE AppendBufferProofs -------------------------
(***************************************************************************)
(* Theorems about AppendBuffer, for any number of threads, every size of   *)
(* the buffer and all lengths of lines.                                    *)
(***************************************************************************)
EXTENDS AppendBuffer, FiniteSetTheorems, TLAPS

Counted == {"exchange", "lost", "copy", "dump"}
Pcs == Counted \cup {"program", "wait", "end", "gone", "exit_group"}
Calls == {"none", "other", "exit", "exit_group"}
Registers == [pc : Pcs, call : Calls, offset : Nat, len : Nat]
Line == [t : Threads, offset : Nat, len : Nat, copied : BOOLEAN]

TypeOK ==
    /\ buffer_offset \in Nat
    /\ writers \in Nat
    /\ lines \in Seq(Line)
    /\ th \in [Threads -> Registers]

\* The threads that writers counts for as long as they are in append_buffer.
Active == {t \in Threads : th[t].pc \in Counted}

\* A thread has checked its offset against the threshold before it tries the
\* exchange, and writers counts at least the threads that are past that check,
\* those that wait for writers to become 0 among them.
BufferInv ==
    /\ TypeOK
    /\ \A t \in Threads :
          /\ th[t].pc \in {"wait", "exchange", "lost"} => th[t].len \in Lengths
          /\ th[t].pc = "exchange" => th[t].offset < DUMP_TRESHOLD
    /\ writers >= Cardinality(Active)
    /\ LinesContiguous

LEMMA Constants ==
    /\ BufferSize \in Nat /\ Reserve \in Nat /\ DUMP_TRESHOLD \in Nat
    /\ DUMP_TRESHOLD + Reserve = BufferSize
    /\ \A len \in Lengths : len \in Nat /\ len <= Reserve
BY BufferAssumption DEF DUMP_TRESHOLD

LEMMA ActiveFinite ==
    /\ IsFiniteSet(Active)
    /\ Cardinality(Active) \in Nat
BY BufferAssumption, FS_Subset, FS_CardinalityType DEF Active

LEMMA InitInv == Init => BufferInv
<1> SUFFICES ASSUME Init PROVE BufferInv
  OBVIOUS
<1>1. TypeOK
  BY DEF Init, TypeOK, InProgram, Registers, Pcs, Calls, Line
<1>2. Active = {}
  BY DEF Init, Active, Counted, InProgram
<1>3. Cardinality(Active) = 0
  BY <1>2, FS_EmptySet
<1>4. \A t \in Threads : th[t].pc = "program"
  BY DEF Init, InProgram
<1>5. LinesContiguous
  BY Constants DEF Init, LinesContiguous
<1> QED BY <1>1, <1>3, <1>4, <1>5 DEF BufferInv, Init

\* A thread that waits for writers to become 0 is counted there itself.
LEMMA DumpWaits ==
    ASSUME BufferInv, NEW t \in Threads, th[t].pc \in Counted
    PROVE  writers > 0
<1>1. t \in Active
  BY DEF Active
<1>2. Cardinality(Active) # 0
  BY <1>1, ActiveFinite, FS_EmptySet
<1> QED BY <1>2, ActiveFinite DEF BufferInv, TypeOK

\* A step of t that keeps its line, if it has one: the rest of the invariant.
LEMMA CountKept ==
    ASSUME BufferInv, NEW t \in Threads, TypeOK',
           \A u \in Threads : u # t => th'[u] = th[u],
           \/ /\ th[t].pc \in Counted <=> th'[t].pc \in Counted
              /\ writers' = writers
           \/ /\ th[t].pc \notin Counted /\ th'[t].pc \in Counted
              /\ writers' = writers + 1
           \/ /\ th[t].pc \in Counted /\ th'[t].pc \notin Counted
              /\ writers' \in {writers, writers - 1}
    PROVE  writers' >= Cardinality(Active')
<1>1. IsFiniteSet(Active) /\ Cardinality(Active) \in Nat
  BY ActiveFinite
<1>2. writers \in Nat /\ writers' \in Nat /\ writers >= Cardinality(Active)
  BY DEF BufferInv, TypeOK
<1>3. CASE (th[t].pc \in Counted <=> th'[t].pc \in Counted) /\ writers' = writers
  <2>1. Active' = Active
    BY <1>3 DEF Active
  <2> QED BY <1>2, <1>3, <2>1
<1>4. CASE /\ th[t].pc \notin Counted /\ th'[t].pc \in Counted
           /\ writers' = writers + 1
  <2>1. Active' = Active \cup {t} /\ t \notin Active
    BY <1>4 DEF Active
  <2>2. Cardinality(Active') = Cardinality(Active) + 1
    BY <1>1, <2>1, FS_AddElement
  <2> QED BY <1>1, <1>2, <1>4, <2>2
<1>5. CASE /\ th[t].pc \in Counted /\ th'[t].pc \notin Counted
           /\ writers' \in {writers, writers - 1}
  <2>1. Active' = Active \ {t} /\ t \in Active
    BY <1>5 DEF Active
  <2>2. Cardinality(Active') = Cardinality(Active) - 1
    BY <1>1, <2>1, FS_RemoveElement
  <2> QED BY <1>1, <1>2, <1>5, <2>2
<1> QED BY <1>3, <1>4, <1>5
\* A thread that is not copying a line leaves the lines alone.
LEMMA LinesKept ==
    ASSUME BufferInv, NEW t \in Threads, th[t].pc # "copy",
           \A u \in Threads : u # t => th'[u] = th[u],
           UNCHANGED <<buffer_offset, lines>>
    PROVE  LinesContiguous'
<1>1. \A i \in DOMAIN lines : lines[i].t \in Threads
  <2>1. \A i \in DOMAIN lines : lines[i] \in Line
    BY DEF BufferInv, TypeOK
  <2> QED BY <2>1 DEF Line
<1> QED BY <1>1 DEF BufferInv, LinesContiguous

\* hook and append_buffer outside of exchange_buffer_offset and memcpy.
LEMMA OutsideKeeps ==
    ASSUME BufferInv, NEW t \in Threads,
           Hook(t) \/ Wait(t) \/ Lost(t) \/ Dump(t) \/ Return(t) \/ ExitGroup(t)
    PROVE  BufferInv' /\ UNCHANGED <<buffer_offset, lines>>
<1>1. th[t] \in Registers /\ writers \in Nat
  BY DEF BufferInv, TypeOK
<1>2. CASE Hook(t)
  <2>1. PICK call \in {"other", "exit", "exit_group"}, len \in Lengths :
           th' = [th EXCEPT ![t] = [pc |-> "wait", call |-> call, len |-> len,
                                    offset |-> buffer_offset]]
    BY ZenonT(60), <1>2 DEF Hook
  <2>2. /\ th[t].pc = "program"
        /\ UNCHANGED <<buffer_offset, writers, lines, log, exited>>
    BY <1>2 DEF Hook, At
  <2>3. TypeOK'
    BY <2>1, <2>2, Constants DEF BufferInv, TypeOK, Registers, Pcs, Calls
  <2>4. /\ th'[t].pc = "wait" /\ th'[t].len = len
        /\ \A u \in Threads : u # t => th'[u] = th[u]
    BY <2>1 DEF BufferInv, TypeOK
  <2>5. LinesContiguous'
    BY SMTT(30), <2>2, <2>4, LinesKept
  <2>6. writers' >= Cardinality(Active')
    BY <2>2, <2>3, <2>4, CountKept DEF Counted
  <2> QED BY <2>2, <2>3, <2>4, <2>5, <2>6 DEF BufferInv, DUMP_TRESHOLD
<1>3. CASE Wait(t)
  <2>1. /\ th[t].pc = "wait"
        /\ UNCHANGED <<buffer_offset, lines, log, exited>>
    BY <1>3 DEF Wait, At
  <2>2. CASE th[t].offset >= DUMP_TRESHOLD
    <3>1. th' = [th EXCEPT ![t].offset = buffer_offset] /\ writers' = writers
      BY <1>3, <2>2 DEF Wait
    <3>2. TypeOK'
      BY <2>1, <3>1 DEF BufferInv, TypeOK, Registers
    <3>3. /\ th'[t].pc = "wait" /\ th'[t].len = th[t].len
          /\ \A u \in Threads : u # t => th'[u] = th[u]
      BY <1>1, <2>1, <3>1 DEF BufferInv, TypeOK, Registers
    <3>4. LinesContiguous'
      BY <2>1, <3>3, LinesKept
    <3>5. writers' >= Cardinality(Active')
      BY <2>1, <3>1, <3>2, <3>3, CountKept DEF Counted
    <3> QED BY <2>1, <3>2, <3>3, <3>4, <3>5 DEF BufferInv, DUMP_TRESHOLD
  <2>3. CASE ~(th[t].offset >= DUMP_TRESHOLD)
    <3>1. th' = [th EXCEPT ![t].pc = "exchange"] /\ writers' = writers + 1
      BY <1>3, <2>3 DEF Wait, Goto
    <3>2. TypeOK'
      <4>1. [th[t] EXCEPT !.pc = "exchange"] \in Registers
        BY <1>1 DEF Registers, Pcs, Counted
      <4>2. th' = [th EXCEPT ![t] = [th[t] EXCEPT !.pc = "exchange"]]
        BY <3>1
      <4> QED BY <1>1, <2>1, <3>1, <4>1, <4>2 DEF BufferInv, TypeOK
    <3>3. /\ th'[t].pc = "exchange" /\ th'[t].len = th[t].len
          /\ th'[t].offset = th[t].offset /\ th[t].offset \in Nat
          /\ \A u \in Threads : u # t => th'[u] = th[u]
      BY <1>1, <3>1 DEF BufferInv, TypeOK, Registers
    <3>4. LinesContiguous'
      BY <2>1, <3>3, LinesKept
    <3>5. writers' >= Cardinality(Active')
      BY SMTT(30), <2>1, <3>1, <3>2, <3>3, CountKept DEF Counted
    <3> QED BY <2>1, <2>3, <3>2, <3>3, <3>4, <3>5, Constants
        DEF BufferInv, DUMP_TRESHOLD
  <2> QED BY <2>2, <2>3
<1>4. CASE Lost(t)
  <2>1. /\ th[t].pc = "lost" /\ writers' = writers - 1
        /\ th' = [th EXCEPT ![t].pc = "wait"]
        /\ UNCHANGED <<buffer_offset, lines, log, exited>>
    BY <1>4 DEF Lost, At, Goto
  <2>2. TypeOK'
    <3>1. writers > 0
      BY <2>1, DumpWaits DEF Counted
    <3>2. [th[t] EXCEPT !.pc = "wait"] \in Registers
      BY <1>1 DEF Registers, Pcs
    <3>3. th' = [th EXCEPT ![t] = [th[t] EXCEPT !.pc = "wait"]]
      BY <2>1
    <3> QED BY <1>1, <2>1, <3>1, <3>2, <3>3 DEF BufferInv, TypeOK
  <2>3. /\ th'[t].pc = "wait" /\ th'[t].len = th[t].len
        /\ \A u \in Threads : u # t => th'[u] = th[u]
    BY <1>1, <2>1 DEF BufferInv, TypeOK, Registers
  <2>4. LinesContiguous'
    BY <2>1, <2>3, LinesKept
  <2>5. writers' >= Cardinality(Active')
    BY SMTT(30), <2>1, <2>2, <2>3, CountKept DEF Counted
  <2> QED BY <2>1, <2>2, <2>3, <2>4, <2>5 DEF BufferInv, DUMP_TRESHOLD
<1>5. CASE Dump(t)
  <2>1. th[t].pc = "dump"
    BY <1>5 DEF Dump, At
  <2>2. writers # 0
    BY <1>1, <2>1, DumpWaits DEF Counted
  <2>3. UNCHANGED vars
    BY <1>5, <2>2 DEF Dump, vars
  <2> QED BY <2>3 DEF vars, BufferInv, TypeOK, Active, LinesContiguous
<1>6. CASE Return(t)
  <2>1. /\ th[t].pc = "end" /\ UNCHANGED <<buffer_offset, writers, lines, exited>>
    BY <1>6 DEF Return, At
  <2>2. PICK r \in Registers :
           /\ th' = [th EXCEPT ![t] = r]
           /\ r.pc \in {"exit_group", "gone", "program"}
    <3>1. CASE th[t].call = "exit_group"
      <4>1. th' = [th EXCEPT ![t] = [th[t] EXCEPT !.pc = "exit_group"]]
        BY <1>6, <3>1 DEF Return, Goto
      <4>2. /\ [th[t] EXCEPT !.pc = "exit_group"] \in Registers
            /\ [th[t] EXCEPT !.pc = "exit_group"].pc = "exit_group"
        BY <1>1 DEF Registers, Pcs
      <4> QED BY <4>1, <4>2
    <3>2. CASE th[t].call = "exit"
      <4>1. th' = [th EXCEPT ![t] = [th[t] EXCEPT !.pc = "gone"]]
        BY <1>6, <3>2 DEF Return
      <4>2. /\ [th[t] EXCEPT !.pc = "gone"] \in Registers
            /\ [th[t] EXCEPT !.pc = "gone"].pc = "gone"
        BY <1>1 DEF Registers, Pcs
      <4> QED BY <4>1, <4>2
    <3>3. CASE th[t].call \notin {"exit", "exit_group"}
      <4>1. th' = [th EXCEPT ![t] = InProgram]
        BY <1>6, <3>3 DEF Return
      <4>2. InProgram \in Registers /\ InProgram.pc = "program"
        BY DEF InProgram, Registers, Pcs, Calls
      <4> QED BY ZenonT(60), <4>1, <4>2
    <3> QED BY <3>1, <3>2, <3>3
  <2>3. TypeOK'
    BY <2>1, <2>2 DEF BufferInv, TypeOK
  <2>4. /\ th'[t].pc \in {"exit_group", "gone", "program"}
        /\ \A u \in Threads : u # t => th'[u] = th[u]
    BY <2>2 DEF BufferInv, TypeOK
  <2>5. LinesContiguous'
    BY <2>1, <2>4, LinesKept
  <2>6. writers' >= Cardinality(Active')
    BY SMTT(30), <2>1, <2>3, <2>4, CountKept DEF Counted
  <2> QED BY <2>1, <2>3, <2>4, <2>5, <2>6 DEF BufferInv, DUMP_TRESHOLD
<1>7. CASE ExitGroup(t)
  <2>1. UNCHANGED <<buffer_offset, writers, lines, th, log>>
    BY <1>7 DEF ExitGroup
  <2> QED BY <2>1 DEF BufferInv, TypeOK, Active, LinesContiguous
<1> QED BY <1>2, <1>3, <1>4, <1>5, <1>6, <1>7
\* Copying a line does not move it.
LEMMA CopyKeeps ==
    ASSUME BufferInv, NEW t \in Threads, Copy(t)
    PROVE  BufferInv' /\ UNCHANGED buffer_offset
<1>1. /\ th[t] \in Registers /\ lines \in Seq(Line)
      /\ \A i \in DOMAIN lines : lines[i] \in Line
  BY DEF BufferInv, TypeOK
<1>2. /\ th[t].pc = "copy"
      /\ UNCHANGED <<buffer_offset, writers, log, exited>>
  BY DEF Copy, At
<1>3. PICK pc \in {"dump", "end"} : th' = [th EXCEPT ![t].pc = pc]
  BY DEF Copy, AfterCopy, Goto
<1>4. /\ th'[t].pc = pc /\ th'[t] \in Registers
      /\ \A u \in Threads : u # t => th'[u] = th[u]
  <2>1. th'[t] = [th[t] EXCEPT !.pc = pc]
    BY <1>3 DEF BufferInv, TypeOK
  <2>2. pc \in Pcs
    BY DEF Pcs, Counted
  <2>3. \A u \in Threads : u # t => th'[u] = th[u]
    BY <1>3 DEF BufferInv, TypeOK
  <2> QED BY <1>1, <2>1, <2>2, <2>3 DEF Registers
<1>5. lines' = [i \in DOMAIN lines |->
                  IF lines[i].t = t THEN [lines[i] EXCEPT !.copied = TRUE]
                  ELSE lines[i]]
  BY DEF Copy, AfterCopy
<1>6. \A i \in DOMAIN lines :
         /\ lines'[i] \in Line /\ lines'[i].t = lines[i].t
         /\ lines'[i].offset = lines[i].offset /\ lines'[i].len = lines[i].len
         /\ ~lines'[i].copied => ~lines[i].copied /\ lines[i].t # t
  <2> SUFFICES ASSUME NEW i \in DOMAIN lines
               PROVE  /\ lines'[i] \in Line /\ lines'[i].t = lines[i].t
                      /\ lines'[i].offset = lines[i].offset
                      /\ lines'[i].len = lines[i].len
                      /\ ~lines'[i].copied => ~lines[i].copied /\ lines[i].t # t
    OBVIOUS
  <2>1. CASE lines[i].t = t
    <3>1. lines'[i] = [lines[i] EXCEPT !.copied = TRUE]
      BY <1>5, <2>1
    <3> QED BY <1>1, <3>1 DEF Line
  <2>2. CASE lines[i].t # t
    <3>1. lines'[i] = lines[i]
      BY <1>5, <2>2
    <3> QED BY <1>1, <2>2, <3>1
  <2> QED BY <2>1, <2>2
<1>7. lines' \in Seq(Line) /\ Len(lines') = Len(lines)
      /\ DOMAIN lines' = DOMAIN lines
  <2>1. DOMAIN lines = 1 .. Len(lines) /\ Len(lines) \in Nat
    BY <1>1
  <2>2. lines' \in [1 .. Len(lines) -> Line]
    BY <1>5, <1>6, <2>1
  <2> QED BY <2>1, <2>2
<1>8. TypeOK'
  <2>1. th' = [u \in Threads |-> th'[u]]
    BY ZenonT(60), <1>3 DEF BufferInv, TypeOK
  <2>2. \A u \in Threads : th'[u] \in Registers
    BY <1>4 DEF BufferInv, TypeOK
  <2>3. th' \in [Threads -> Registers]
    BY <2>1, <2>2
  <2> QED BY <1>2, <1>7, <2>3 DEF BufferInv, TypeOK
<1>9. LinesContiguous'
  <2>1. \A i \in DOMAIN lines' :
          /\ lines'[i].offset =
                IF i = 1 THEN 0 ELSE lines'[i - 1].offset + lines'[i - 1].len
          /\ ~lines'[i].copied =>
                /\ th'[lines'[i].t].pc = "copy"
                /\ th'[lines'[i].t].offset = lines'[i].offset
    <3> SUFFICES ASSUME NEW i \in DOMAIN lines
                 PROVE  /\ lines'[i].offset =
                              IF i = 1 THEN 0
                              ELSE lines'[i - 1].offset + lines'[i - 1].len
                        /\ ~lines'[i].copied =>
                              /\ th'[lines'[i].t].pc = "copy"
                              /\ th'[lines'[i].t].offset = lines'[i].offset
      BY <1>7
    <3>1. i # 1 => i - 1 \in DOMAIN lines
      BY <1>1
    <3>2. lines[i].t \in Threads
      BY <1>1 DEF Line
    <3>3. lines'[i].offset =
             IF i = 1 THEN 0 ELSE lines'[i - 1].offset + lines'[i - 1].len
      BY SMTT(30), <1>6, <3>1 DEF BufferInv, LinesContiguous
    <3>4. ASSUME ~lines'[i].copied
          PROVE  /\ th'[lines'[i].t].pc = "copy"
                 /\ th'[lines'[i].t].offset = lines'[i].offset
      BY SMTT(30), <1>4, <1>6, <3>2, <3>4 DEF BufferInv, LinesContiguous
    <3> QED BY <3>3, <3>4
  <2>2. buffer_offset' = IF lines' = <<>> THEN 0
                         ELSE lines'[Len(lines')].offset + lines'[Len(lines')].len
    <3>1. lines' = <<>> <=> lines = <<>>
      BY <1>1, <1>7
    <3>2. lines # <<>> => Len(lines) \in DOMAIN lines
      BY <1>1
    <3> QED BY <1>2, <1>6, <1>7, <3>1, <3>2 DEF BufferInv, LinesContiguous
  <2> QED BY <1>2, <2>1, <2>2 DEF BufferInv, LinesContiguous
<1>10. writers' >= Cardinality(Active')
  <2>1. th[t].pc \in Counted
    BY <1>2 DEF Counted
  <2> QED BY <1>2, <1>4, <1>8, <2>1, CountKept DEF Counted
<1> QED BY <1>2, <1>4, <1>8, <1>9, <1>10 DEF BufferInv, DUMP_TRESHOLD
\* The exchange appends a line where the last one ends, or changes nothing.  It
\* fails when the buffer is full.
LEMMA ExchangeKeeps ==
    ASSUME BufferInv, NEW t \in Threads, Exchange(t)
    PROVE  /\ BufferInv'
           /\ buffer_offset >= DUMP_TRESHOLD => buffer_offset' = buffer_offset
<1>1. /\ th[t] \in Registers /\ lines \in Seq(Line) /\ buffer_offset \in Nat
      /\ \A i \in DOMAIN lines : lines[i] \in Line
  BY DEF BufferInv, TypeOK
<1>2. /\ th[t].pc = "exchange" /\ UNCHANGED <<writers, log, exited>>
      /\ th[t].len \in Lengths /\ th[t].offset < DUMP_TRESHOLD
  BY DEF Exchange, At, BufferInv
<1>3. CASE ~exchange_buffer_offset(t)
  <2>1. /\ th' = [th EXCEPT ![t].pc = "lost", ![t].offset = buffer_offset]
        /\ UNCHANGED <<buffer_offset, lines>>
    BY <1>3 DEF Exchange
  <2>2. TypeOK'
    BY <1>1, <1>2, <2>1 DEF BufferInv, TypeOK, Registers, Pcs, Counted
  <2>3. /\ th'[t].pc = "lost" /\ th'[t].len = th[t].len
        /\ \A u \in Threads : u # t => th'[u] = th[u]
    BY <1>1, <2>1 DEF BufferInv, TypeOK, Registers
  <2>4. LinesContiguous'
    BY <1>2, <2>1, <2>3, LinesKept
  <2>5. writers' >= Cardinality(Active')
    BY <1>2, <2>2, <2>3, CountKept DEF Counted
  <2> QED BY <1>2, <2>1, <2>2, <2>3, <2>4, <2>5 DEF BufferInv, DUMP_TRESHOLD
<1>4. CASE exchange_buffer_offset(t)
  <2> DEFINE new == [t |-> t, offset |-> th[t].offset,
                     len |-> th[t].len, copied |-> FALSE]
             n == Len(lines)
  <2>1. buffer_offset = th[t].offset
    BY <1>4 DEF exchange_buffer_offset
  <2>2. /\ buffer_offset' = buffer_offset + th[t].len
        /\ lines' = Append(lines, new)
        /\ th' = [th EXCEPT ![t].pc = "copy"]
    BY <1>4, <2>1 DEF Exchange, Goto
  <2>3. /\ new \in Line /\ new.t = t /\ new.offset = buffer_offset
        /\ new.len = th[t].len
    BY <1>1, <2>1 DEF Line, Registers
  <2> HIDE DEF new
  <2>4. /\ lines' \in Seq(Line) /\ n \in Nat
        /\ Len(lines') = n + 1 /\ lines' # <<>>
        /\ lines'[n + 1] = new
        /\ DOMAIN lines = 1 .. n /\ DOMAIN lines' = 1 .. n + 1
        /\ \A i \in 1 .. n : lines'[i] = lines[i]
    BY <1>1, <2>2, <2>3
  <2>5. /\ th'[t].pc = "copy" /\ th'[t].offset = buffer_offset
        /\ th'[t] \in Registers
        /\ \A u \in Threads : u # t => th'[u] = th[u]
    <3>1. th'[t] = [th[t] EXCEPT !.pc = "copy"]
      BY <2>2 DEF BufferInv, TypeOK
    <3>2. \A u \in Threads : u # t => th'[u] = th[u]
      BY <2>2 DEF BufferInv, TypeOK
    <3> QED BY <1>1, <2>1, <3>1, <3>2 DEF Registers, Pcs, Counted
  <2>6. /\ th[t].len \in Nat /\ th[t].len <= Reserve
        /\ buffer_offset < DUMP_TRESHOLD
    BY <1>2, <2>1, Constants
  <2>7. TypeOK'
    <3>1. th' = [u \in Threads |-> th'[u]]
      BY <2>2 DEF BufferInv, TypeOK
    <3>2. \A u \in Threads : th'[u] \in Registers
      BY <2>5 DEF BufferInv, TypeOK
    <3>3. th' \in [Threads -> Registers]
      BY <3>1, <3>2
    <3> QED BY <1>1, <1>2, <2>2, <2>4, <2>6, <3>3 DEF BufferInv, TypeOK
  <2>8. LinesContiguous'
    <3>1. \A i \in DOMAIN lines' :
            /\ lines'[i].offset =
                  IF i = 1 THEN 0 ELSE lines'[i - 1].offset + lines'[i - 1].len
            /\ ~lines'[i].copied =>
                  /\ th'[lines'[i].t].pc = "copy"
                  /\ th'[lines'[i].t].offset = lines'[i].offset
      <4> SUFFICES ASSUME NEW i \in 1 .. n + 1
                   PROVE  /\ lines'[i].offset =
                                IF i = 1 THEN 0
                                ELSE lines'[i - 1].offset + lines'[i - 1].len
                          /\ ~lines'[i].copied =>
                                /\ th'[lines'[i].t].pc = "copy"
                                /\ th'[lines'[i].t].offset = lines'[i].offset
        BY <2>4
      <4>1. CASE i = n + 1
        <5>1. buffer_offset = IF n = 0 THEN 0 ELSE lines[n].offset + lines[n].len
          BY SMTT(30), <1>1, <2>4 DEF BufferInv, LinesContiguous
        <5>2. n # 0 => lines'[n] = lines[n]
          BY SMTT(30), <2>4
        <5> QED BY SMTT(30), <2>3, <2>4, <2>5, <4>1, <5>1, <5>2
      <4>2. CASE i # n + 1
        <5>1. i \in 1 .. n /\ lines'[i] = lines[i]
              /\ (i # 1 => lines'[i - 1] = lines[i - 1])
          BY <2>4, <4>2
        <5>2. lines[i].t \in Threads
          BY <1>1, <2>4, <5>1 DEF Line
        <5>3. ~lines[i].copied => th[lines[i].t].pc = "copy"
          BY SMTT(30), <2>4, <5>1 DEF BufferInv, LinesContiguous
        <5>4. ~lines[i].copied => th'[lines[i].t] = th[lines[i].t]
          BY <1>2, <2>5, <5>2, <5>3
        <5> QED BY SMTT(30), <2>4, <5>1, <5>4 DEF BufferInv, LinesContiguous
      <4> QED BY <4>1, <4>2
    <3>2. buffer_offset' = lines'[Len(lines')].offset + lines'[Len(lines')].len
      BY <2>2, <2>3, <2>4
    <3>3. buffer_offset' <= BufferSize
      BY SMTT(30), <1>1, <2>2, <2>6, Constants
    <3> QED BY <2>4, <3>1, <3>2, <3>3 DEF LinesContiguous
  <2>9. writers' >= Cardinality(Active')
    BY <1>2, <2>5, <2>7, CountKept DEF Counted
  <2>10. ~(buffer_offset >= DUMP_TRESHOLD)
    BY <1>1, <2>6, Constants
  <2> QED BY <2>5, <2>7, <2>8, <2>9, <2>10 DEF BufferInv, DUMP_TRESHOLD
<1> QED BY <1>3, <1>4

LEMMA StepInv ==
    BufferInv /\ [Next]_vars =>
        /\ BufferInv'
        /\ buffer_offset >= DUMP_TRESHOLD => buffer_offset' = buffer_offset
<1> SUFFICES ASSUME BufferInv, [Next]_vars
             PROVE  /\ BufferInv'
                    /\ buffer_offset >= DUMP_TRESHOLD
                          => buffer_offset' = buffer_offset
  BY SMTT(30)
<1>1. CASE UNCHANGED vars
  BY <1>1 DEF vars, BufferInv, TypeOK, Active, LinesContiguous
<1>2. CASE Next
  <2>1. PICK t \in Threads :
           \/ Hook(t) \/ Wait(t) \/ Exchange(t) \/ Lost(t) \/ Copy(t) \/ Dump(t)
           \/ Return(t) \/ ExitGroup(t)
    BY <1>2 DEF Next
  <2>2. CASE Exchange(t)
    BY <2>2, ExchangeKeeps
  <2>3. CASE Copy(t)
    BY <2>3, CopyKeeps
  <2>4. CASE \/ Hook(t) \/ Wait(t) \/ Lost(t) \/ Dump(t) \/ Return(t)
             \/ ExitGroup(t)
    BY <2>4, OutsideKeeps
  <2> QED BY SMTT(30), <2>1, <2>2, <2>3, <2>4
<1> QED BY <1>1, <1>2

\* However many threads append at the same time, their lines lie in the buffer
\* one after the other and never past its end.
THEOREM Contiguity == Spec => []LinesContiguous
<1>1. BufferInv => LinesContiguous
  BY DEF BufferInv
<1> QED BY <1>1, InitInv, StepInv, PTL DEF Spec

\* A thread that is to write a full buffer to the file waits for writers to
\* become 0, and counts itself: the buffer is never emptied.
THEOREM NeverDumped == Spec => FullBufferStays
<1>1. BufferInv /\ [Next]_vars =>
        [buffer_offset >= DUMP_TRESHOLD => buffer_offset' = buffer_offset]_vars
  BY StepInv
<1> QED BY <1>1, InitInv, StepInv, PTL DEF Spec, FullBufferStays
=============================================================================
