--------------------------------- MODULE Icap ---------------------------------
(***************************************************************************)
(* examples/icap.c: a hook that writes a copy of what the program writes,  *)
(* with each "i" in upper case, and of no more than its buffer holds.  The *)
(* program writes on after a short write, and again after a failed one.    *)
(***************************************************************************)
EXTENDS Integers, Sequences

CONSTANTS
    CopySize,    \* 0x1000: sizeof(buf_copy)
    IcapTexts    \* what a program writes

ASSUME IcapAssumption == CopySize \in Nat \ {0}

VARIABLES
    text,      \* what the program wants to write
    sent,      \* how much of it was reported to be written
    arrived    \* what was written

icapVars == <<text, sent, arrived>>

Capital(c) == IF c = "i" THEN "I" ELSE c
Capitalized(s) == [k \in 1 .. Len(s) |-> Capital(s[k])]

IcapInit ==
    /\ text \in IcapTexts
    /\ sent = 0
    /\ arrived = <<>>

\* How much of what is asked for is copied.
size_copied(asked) == IF asked > CopySize THEN CopySize ELSE asked

reported_asked(result, asked) == asked

\* What the program is told: what the kernel has written.
reported(result, asked) == result

\* The hook for a write of asked bytes; the kernel writes all, less or nothing.
IcapWrite(asked) ==
    LET size == size_copied(asked)
        buf_copy == Capitalized(SubSeq(text, sent + 1, sent + size))
    IN  \E result \in 0 .. Len(buf_copy) :
          /\ arrived' = arrived \o SubSeq(buf_copy, 1, result)
          /\ sent' = sent + reported(result, asked)
          /\ UNCHANGED text

IcapNext == \E asked \in 1 .. Len(text) - sent : IcapWrite(asked)

-----------------------------------------------------------------------------
(***************************************************************************)
(* Properties.                                                             *)
(***************************************************************************)
\* What has arrived is, in capitals, the part of the text that was reported as
\* written: a program that writes on after the short writes which the hook makes
\* of long ones loses nothing and repeats nothing.
IcapDelivers == arrived = Capitalized(SubSeq(text, 1, sent))
=============================================================================
