-------------------------------- MODULE FspIo --------------------------------
(***************************************************************************)
(* read, write, writev and lseek of examples/syscall_fsp.c on an open file *)
(* of FSP.  Transfers go through buffers of the server, at most SIZE bytes *)
(* each; the server may transfer less than asked for, or fail.             *)
(***************************************************************************)
EXTENDS Integers, Sequences

CONSTANTS
    SIZE,         \* bytes of a chunk
    FsMallocMax,  \* the largest buffer that fs_malloc hands out
    MaxLen,       \* bound: how long the file may become
    MaxCount,     \* bound: how much one call transfers
    IntWidth,     \* bits of an int
    EINVAL

ASSUME IoAssumption ==
    /\ SIZE \in Nat \ {0} /\ FsMallocMax \in Nat /\ SIZE <= FsMallocMax
    /\ MaxLen \in Nat /\ MaxCount \in Nat
    /\ IntWidth \in Nat \ {0} /\ EINVAL \in Nat \ {0}

VARIABLES
    file,     \* the bytes of the file; those written are numbered from 1 on
    pos,      \* the file position, which the server keeps
    call,     \* the latest call, and how far it got
    before,   \* file and pos when it was made
    aborted   \* the assertion that has failed

ioVars == <<file, pos, call, before, aborted>>

Untouched == -1
Fresh == [i \in 1 .. MaxCount |-> Untouched]

NoCall == [op |-> "none", pc |-> "returned", asked |-> 0, iov |-> <<>>,
           count |-> 0, saved |-> 0, total |-> 0, tmp_ptr |-> 0, written |-> 0,
           buf |-> Fresh, whence |-> "SEEK_SET", stat_ok |-> TRUE, st_size |-> 0,
           result |-> 0]

IoInit ==
    /\ file = <<>>
    /\ pos = 0
    /\ call = NoCall
    /\ before = [file |-> <<>>, pos |-> 0]
    /\ aborted = "no"

AtLoop(op, pc) == aborted = "no" /\ call.op = op /\ call.pc = pc
Smaller(a, b) == IF a < b THEN a ELSE b

Zeros(n) == [i \in 1 .. n |-> 0]

\* The file with data at offset at, which is not beyond the end of the file.
Overwrite(at, data) ==
    SubSeq(file, 1, at) \o data \o SubSeq(file, at + Len(data) + 1, Len(file))

\* A long stored into an int.
to_int(n) ==
    LET m == n % 2 ^ IntWidth
    IN  IF m < 2 ^ (IntWidth - 1) THEN m ELSE m - 2 ^ IntWidth

\* What SET_RETURN_VAL makes of a value; -1 stands for the errno of the server.
set_return_val(ret_val) == IF ret_val = -1 THEN -EINVAL ELSE ret_val

chunk_size == IF call.count > SIZE THEN SIZE ELSE call.count

advanced_by_chunk(ret) == call.tmp_ptr + chunk_size

\* tmp_ptr after a transfer of ret bytes, fewer perhaps than the chunk.
advanced(ret) == call.tmp_ptr + ret

-----------------------------------------------------------------------------
\* The program makes a call on a descriptor that is in the table.
Enter(op, fields) ==
    /\ aborted = "no" /\ call.pc = "returned"
    /\ call' = [fields EXCEPT !.op = op]
    /\ before' = [file |-> file, pos |-> pos]
    /\ UNCHANGED <<file, pos, aborted>>

EnterTransfer(op, n) ==
    Enter(op, [NoCall EXCEPT !.pc = "loop", !.asked = n, !.count = n, !.saved = n])

EnterRead(n) == EnterTransfer("read", n)
EnterWrite(n) == EnterTransfer("write", n)

\* Two buffers, or none.
EnterWritev(iov) ==
    Enter("writev", [NoCall EXCEPT !.pc = "next", !.iov = iov,
                         !.asked = IF iov = <<>> THEN 0 ELSE iov[1] + iov[2]])

EnterLseek(offset, whence) ==
    Enter("lseek", [NoCall EXCEPT !.pc = "stat", !.asked = offset,
                                  !.whence = whence])

\* assert(cur_buf != NULL), in each round of the loops.
MallocFails ==
    /\ aborted = "no" /\ call.pc = "loop" /\ call.count > 0
    /\ aborted' = "cur_buf != NULL"
    /\ UNCHANGED <<file, pos, call, before>>

\* One round of DO_FS_ALLOC_R.
ReadChunk ==
    /\ AtLoop("read", "loop") /\ call.count > 0
    /\ \E ret \in -1 .. Smaller(chunk_size, Len(file) - pos) :
          IF ret > 0
          THEN /\ call' = [call EXCEPT
                     !.buf = [i \in 1 .. MaxCount |->
                                IF i \in call.tmp_ptr + 1 .. call.tmp_ptr + ret
                                THEN file[pos + i - call.tmp_ptr]
                                ELSE @[i]],
                     !.tmp_ptr = advanced(ret),
                     !.total = @ + ret,
                     !.count = @ - chunk_size]
               /\ pos' = pos + ret
          ELSE /\ call' = [call EXCEPT !.pc = "break"]
               /\ UNCHANGED pos
    /\ UNCHANGED <<file, before, aborted>>

\* One round of DO_FS_ALLOC_W, and of the loop of do_fs_alloc_w.
WriteChunk ==
    /\ call.op \in {"write", "writev"}
    /\ AtLoop(call.op, "loop") /\ call.count > 0
    /\ \E ret \in -1 .. Smaller(chunk_size, MaxLen - pos) :
          IF ret > 0
          THEN /\ file' = Overwrite(pos, [i \in 1 .. ret |-> call.tmp_ptr + i])
               /\ pos' = pos + ret
               /\ call' = [call EXCEPT !.tmp_ptr = advanced(ret),
                                       !.total = @ + ret,
                                       !.count = @ - chunk_size]
          ELSE /\ call' = [call EXCEPT !.pc = "break"]
               /\ UNCHANGED <<file, pos>>
    /\ UNCHANGED <<before, aborted>>

LoopLeft == call.pc = "break" \/ (call.pc = "loop" /\ call.count = 0)

TransferReturns ==
    /\ aborted = "no" /\ call.op \in {"read", "write"} /\ LoopLeft
    /\ call' = [call EXCEPT !.pc = "returned",
                            !.result = set_return_val(call.total)]
    /\ UNCHANGED <<file, pos, before, aborted>>

\* do_fs_alloc_w returns, and asserts that it has written everything.
WritevPartDone ==
    /\ aborted = "no" /\ call.op = "writev" /\ LoopLeft
    /\ \/ /\ call.total = call.saved
          /\ call' = [call EXCEPT !.pc = "next", !.written = @ + call.total]
          /\ UNCHANGED aborted
       \/ /\ call.total # call.saved
          /\ aborted' = "total_written == saved"
          /\ UNCHANGED call
    /\ UNCHANGED <<file, pos, before>>

WritevNext ==
    /\ AtLoop("writev", "next")
    /\ call' =
          IF call.iov = <<>>
          THEN [call EXCEPT !.pc = "returned", !.result = set_return_val(call.written)]
          ELSE [call EXCEPT !.pc = "loop", !.iov = Tail(@), !.total = 0,
                            !.count = Head(call.iov), !.saved = Head(call.iov)]
    /\ UNCHANGED <<file, pos, before, aborted>>

-----------------------------------------------------------------------------
(***************************************************************************)
(* SYS_lseek.  If the file is shorter than the offset, whatever the offset *)
(* is relative to, it is first filled with zeros.                          *)
(***************************************************************************)

\* When fs_fstat fails, stat_buf is what the stack happens to hold.
LseekStat ==
    /\ AtLoop("lseek", "stat")
    /\ \/ call' = [call EXCEPT !.pc = "fill", !.st_size = Len(file)]
       \/ \E garbage \in 0 .. MaxLen :
             call' = [call EXCEPT !.pc = "fill", !.st_size = garbage,
                                  !.stat_ok = FALSE]
    /\ UNCHANGED <<file, pos, before, aborted>>

fill_from_pos == pos

\* Where the zeros go.
fill_from == call.st_size

\* How much was written is not looked at.
LseekFill ==
    /\ AtLoop("lseek", "fill")
    /\ LET write_sz == call.asked - call.st_size
       IN  \/ /\ write_sz <= 0
              /\ call' = [call EXCEPT !.pc = "seek"]
              /\ UNCHANGED <<file, aborted>>
           \/ /\ write_sz > FsMallocMax
              /\ aborted' = "write_buf != NULL"
              /\ UNCHANGED <<file, call>>
           \/ /\ write_sz \in 1 .. FsMallocMax
              /\ \/ UNCHANGED file
                 \/ \E ret \in 1 .. write_sz :
                       /\ fill_from <= Len(file)
                       /\ file' = Overwrite(fill_from, Zeros(ret))
              /\ call' = [call EXCEPT !.pc = "seek"]
              /\ UNCHANGED aborted
    /\ UNCHANGED <<pos, before>>

\* Unlike the kernel, the server refuses a position beyond the end of the file.
LseekSeek ==
    /\ AtLoop("lseek", "seek")
    /\ LET base == CASE call.whence = "SEEK_SET" -> 0
                     [] call.whence = "SEEK_CUR" -> pos
                     [] call.whence = "SEEK_END" -> Len(file)
           target == base + call.asked
       IN  \/ /\ target \in 0 .. Len(file)
              /\ pos' = target
              /\ call' = [call EXCEPT !.pc = "returned",
                                      !.result = set_return_val(to_int(target))]
           \/ /\ call' = [call EXCEPT !.pc = "returned",
                                      !.result = set_return_val(-1)]
              /\ UNCHANGED pos
    /\ UNCHANGED <<file, before, aborted>>

IoNext ==
    \/ \E n \in 0 .. MaxCount : EnterRead(n) \/ EnterWrite(n)
    \/ \E iov \in {<<>>} \cup {<<m, n>> : m, n \in 0 .. MaxCount} :
          (iov # <<>> => iov[1] + iov[2] <= MaxCount) /\ EnterWritev(iov)
    \/ \E offset \in -1 .. MaxLen, whence \in {"SEEK_SET", "SEEK_CUR", "SEEK_END"} :
          EnterLseek(offset, whence)
    \/ MallocFails \/ ReadChunk \/ WriteChunk \/ TransferReturns
    \/ WritevPartDone \/ WritevNext
    \/ LseekStat \/ LseekFill \/ LseekSeek

-----------------------------------------------------------------------------
(***************************************************************************)
(* Properties.                                                             *)
(***************************************************************************)
Returned(op) == call.pc = "returned" /\ call.op = op

\* However the server splits a transfer up, and wherever it gives up, what read,
\* write and writev report is how many bytes were moved, and these are the bytes
\* from the start of the buffer and at the file position, without a gap; writev
\* returns only if it has written everything.
TransfersExact ==
    LET n == call.result
        data == [i \in 1 .. n |-> i]
    IN  /\ Returned("read") =>
              /\ n \in 0 .. call.asked
              /\ file = before.file /\ pos = before.pos + n
              /\ \A i \in 1 .. MaxCount :
                    call.buf[i] = IF i <= n THEN file[before.pos + i] ELSE Untouched
        /\ (Returned("write") \/ Returned("writev")) =>
              /\ n \in (IF call.op = "writev" THEN {call.asked} ELSE 0 .. call.asked)
              /\ pos = before.pos + n
              /\ file = SubSeq(before.file, 1, before.pos) \o data
                          \o SubSeq(before.file, pos + 1, Len(before.file))

\* As long as fs_fstat works, lseek keeps the bytes of the file and only appends
\* zeros, up to the offset at most.  A SEEK_SET that fits an int either moves to
\* the offset, even beyond the former end, or fails and moves nowhere.
SeekKeepsData ==
    Returned("lseek") /\ call.stat_ok =>
        /\ \E k \in 0 .. MaxLen :
              /\ file = before.file \o Zeros(k)
              /\ k > 0 => Len(file) <= call.asked
        /\ call.whence = "SEEK_SET" /\ call.asked < 2 ^ (IntWidth - 1) =>
              \/ call.result = call.asked /\ pos = call.asked
              \/ call.result < 0 /\ pos = before.pos
=============================================================================
