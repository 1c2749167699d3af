----------------------------- MODULE LogFormat -----------------------------
(***************************************************************************)
(* The conversions of intercept_log.c and cmdline_filter.c: how numbers,   *)
(* buffers and sets of flags are printed into a line of the log, and how   *)
(* the command line is matched.                                            *)
(***************************************************************************)
EXTENDS Integers, SequencesExt

CONSTANTS
    LongBits,     \* 64: the width of long
    IntBits,      \* 32: the width of int
    DigitsSize,   \* 0x20: sizeof(digits)
    MaxWidth,     \* the widths that are tried are 0 .. MaxWidth
    Buffers,      \* buffers and strings to print
    DstSizes,     \* 0x80: the sizes of the destination
    FlagTables,   \* arrays of struct flag_desc
    Flags,        \* bits of the flags
    OpenFlags,    \* the table of the flags of open
    TmpFile,      \* the bits of O_TMPFILE, one of which is O_DIRECTORY
    Strings       \* command lines and filters

VARIABLES
    call,         \* a call of one of the routines, with its arguments
    out           \* and what it printed or returned

formatVars == <<call, out>>

Longs == -(2 ^ (LongBits - 1)) .. 2 ^ (LongBits - 1) - 1
UnsignedLongs == 0 .. 2 ^ LongBits - 1
Bases == {8, 10, 16}

-----------------------------------------------------------------------------
(***************************************************************************)
(* Numbers, as sequences of digits.                                        *)
(***************************************************************************)
digits_of_while(n, base, width) ==
    LET f[m \in 0 .. n, w \in 0 .. width] ==
          IF m = 0 /\ w = 0 THEN <<>>
          ELSE Append(f[m \div base, IF w > 0 THEN w - 1 ELSE 0], m % base)
    IN  f[n, width]

\* A digit is written before the loop is left.
digits_of(n, base, width) ==
    LET f[m \in 0 .. n, w \in 0 .. width] ==
          LET rest == m \div base
              left == IF w > 0 THEN w - 1 ELSE 0
          IN  IF rest > 0 \/ left > 0 THEN Append(f[rest, left], m % base)
              ELSE <<m % base>>
    IN  f[n, width]

usable_width(width) ==
    IF width >= DigitsSize - 1 THEN DigitsSize - 2 ELSE width

print_number(n, base, width) == digits_of(n, base, usable_width(width))

\* The absolute value is computed in unsigned arithmetic.
print_signed_dec(n) ==
    [minus |-> n < 0,
     digits |-> print_number(IF n < 0 THEN (-n) % 2 ^ LongBits ELSE n, 10, 1)]

\* The value of the int in the lower half of a register.
int32(n) ==
    LET low == n % 2 ^ IntBits
    IN  IF low >= 2 ^ (IntBits - 1) THEN low - 2 ^ IntBits ELSE low

print_signed_dec32(n) == print_signed_dec(int32(n))

-----------------------------------------------------------------------------
(***************************************************************************)
(* Buffers.  A character of a buffer is printed as itself or as an escape  *)
(* sequence.                                                               *)
(***************************************************************************)
Quote == "quote"
Backslash == "backslash"
Newline == "newline"
Zero == "zero"
Other == "0x1"      \* neither printable nor with an escape of its own
Printable == {"n", "0", "x", "1"}

escaped_backslash_plain(c) ==
    CASE c = Quote -> <<Backslash, Quote>>
      [] c \in Printable \cup {Backslash} -> <<c>>
      [] c = Newline -> <<Backslash, "n">>
      [] c = Zero -> <<Backslash, "0">>
      [] OTHER -> <<Backslash, "x", "0", "1">>

escaped(c) ==
    CASE c = Quote -> <<Backslash, Quote>>
      [] c = Backslash -> <<Backslash, Backslash>>
      [] c \in Printable -> <<c>>
      [] c = Newline -> <<Backslash, "n">>
      [] c = Zero -> <<Backslash, "0">>
      [] OTHER -> <<Backslash, "x", "0", "1">>

dst_end(dst_size) == dst_size - 5

\* The characters of src (of a zero terminated one, those before the zero) up
\* to the one at which the destination is full.
printed_part(src, dst_size) ==
    FoldLeft(LAMBDA acc, c :
                 IF Len(acc.dst) < dst_end(dst_size)
                 THEN [dst |-> acc.dst \o escaped(c), count |-> acc.count + 1]
                 ELSE acc,
             [dst |-> <<Quote>>, count |-> 0], src)

Dots == <<".", ".", ".">>

xprint_escape(src, dst_size) ==
    LET part == printed_part(src, dst_size)
    IN  part.dst \o (IF part.count < Len(src) THEN Dots ELSE <<>>) \o <<Quote>>

-----------------------------------------------------------------------------
(***************************************************************************)
(* Flags, as sets of bits.                                                 *)
(***************************************************************************)
flag_desc == [flag : SUBSET Flags, printable_name : STRING]

print_flag_step_kept(acc, d) ==
    IF acc.flags \cap d.flag # {}
    THEN [flags |-> acc.flags, names |-> Append(acc.names, d)]
    ELSE acc

\* One round of the loop, which is left when no flag remains.
print_flag_step(acc, d) ==
    IF acc.flags \cap d.flag # {}
    THEN [flags |-> acc.flags \ d.flag, names |-> Append(acc.names, d)]
    ELSE acc

\* What remains is printed as a number, and so is nothing at all.
print_flag_set(flags, table) ==
    LET end == FoldLeft(print_flag_step, [flags |-> flags, names |-> <<>>], table)
    IN  [names |-> end.names,
         hex |-> end.flags,
         zero |-> end.names = <<>> /\ end.flags = {}]

AccessModes == {"O_RDONLY", "O_WRONLY", "O_RDWR"}
O_TMPFILE == [flag |-> TmpFile, printable_name |-> "O_TMPFILE"]

\* The access mode is a number of two bits, one value of which has no name; the
\* table is for the other flags.
arg_print_open_flags(mode, flags) ==
    LET tmpfile == TmpFile \subseteq flags
        set == print_flag_set(IF tmpfile THEN flags \ TmpFile ELSE flags, OpenFlags)
    IN  [mode |-> IF mode \in AccessModes THEN mode ELSE "none",
         names |-> (IF tmpfile THEN <<O_TMPFILE>> ELSE <<>>) \o set.names,
         hex |-> set.hex,
         zero |-> mode \notin AccessModes /\ flags = {}]

-----------------------------------------------------------------------------
(***************************************************************************)
(* The filter for command lines.                                           *)
(***************************************************************************)
NULL == <<"NULL">>

cmdline_match_suffix(cmdline, filter) ==
    \/ filter = NULL
    \/ /\ Len(filter) <= Len(cmdline)
       /\ SubSeq(cmdline, Len(cmdline) - Len(filter) + 1, Len(cmdline)) = filter

cmdline_match(cmdline, filter) ==
    LET flen == Len(filter)
        clen == Len(cmdline)
    IN  \/ filter = NULL
        \/ /\ flen <= clen
           /\ clen > flen => cmdline[clen - flen] = "/"
           /\ SubSeq(cmdline, clen - flen + 1, clen) = filter

\* The decision is made by the first call that finds the command line.
syscall_hook_in_process_allowed(static, cmdline, filter) ==
    IF static.is_decided \/ cmdline = NULL THEN static
    ELSE [is_decided |-> TRUE, result |-> cmdline_match(cmdline, filter)]

-----------------------------------------------------------------------------
NoCall == [routine |-> "none"]

FormatInit == call = NoCall /\ out = <<>>

PrintNumber ==
    \E n \in UnsignedLongs, base \in Bases, width \in 0 .. MaxWidth :
        /\ call' = [routine |-> "print_number", n |-> n, base |-> base,
                    width |-> width]
        /\ out' = print_number(n, base, width)

PrintSigned ==
    \E n \in Longs :
        \/ /\ call' = [routine |-> "print_signed_dec", n |-> n]
           /\ out' = print_signed_dec(n)
        \/ /\ call' = [routine |-> "print_signed_dec32", n |-> n]
           /\ out' = print_signed_dec32(n)

PrintEscape ==
    \E src \in Buffers, dst_size \in DstSizes :
        /\ call' = [routine |-> "xprint_escape", src |-> src,
                    dst_size |-> dst_size]
        /\ out' = xprint_escape(src, dst_size)

PrintFlags ==
    \E flags \in SUBSET Flags, table \in FlagTables :
        /\ call' = [routine |-> "print_flag_set", flags |-> flags,
                    table |-> table]
        /\ out' = print_flag_set(flags, table)

PrintOpenFlags ==
    \E flags \in SUBSET Flags, mode \in AccessModes \cup {"O_ACCMODE"} :
        /\ call' = [routine |-> "arg_print_open_flags", flags |-> flags,
                    mode |-> mode]
        /\ out' = arg_print_open_flags(mode, flags)

\* A hook library asks before the command line is known, when it is known, and
\* once more when the variable in the environment may have changed.
Match ==
    \E cmdline \in Strings, filter \in Strings \cup {NULL},
       later \in {NULL, <<>>, <<"a">>} :
        LET undecided == [is_decided |-> FALSE, result |-> FALSE]
            early == syscall_hook_in_process_allowed(undecided, NULL, filter)
            first == syscall_hook_in_process_allowed(early, cmdline, filter)
            again == syscall_hook_in_process_allowed(first, cmdline, later)
        IN  /\ call' = [routine |-> "cmdline_match", cmdline |-> cmdline,
                        filter |-> filter, later |-> later]
            /\ out' = <<early.result, first.result, again.result>>

FormatNext ==
    /\ call = NoCall
    /\ \/ PrintNumber \/ PrintSigned \/ PrintEscape
       \/ PrintFlags \/ PrintOpenFlags \/ Match
-----------------------------------------------------------------------------
(***************************************************************************)
(* Properties: what a reader of the log makes of it.                       *)
(***************************************************************************)
ValueOf(digits, base) == FoldLeft(LAMBDA v, d : v * base + d, 0, digits)

SignedValueOf(o) ==
    IF o.minus THEN -ValueOf(o.digits, 10) ELSE ValueOf(o.digits, 10)

\* A printed number reads as the number, has the requested width as far as the
\* array of digits allows, no zeros beyond it, and fits in that array.  A signed
\* one reads as itself, the least one too; an int reads as itself whether or
\* not libc extended its sign when it loaded the register.
NumbersReadBack ==
    /\ call.routine = "print_number" =>
          LET width == IF call.width > DigitsSize - 2 THEN DigitsSize - 2
                       ELSE call.width
          IN  /\ ValueOf(out, call.base) = call.n
              /\ Len(out) \in 1 .. DigitsSize - 1
              /\ Len(out) >= width
              /\ Len(out) > width /\ Len(out) > 1 => out[1] # 0
    /\ call.routine = "print_signed_dec" => SignedValueOf(out) = call.n
    /\ call.routine = "print_signed_dec32" =>
          /\ SignedValueOf(out) \in -(2 ^ (IntBits - 1)) .. 2 ^ (IntBits - 1) - 1
          /\ (SignedValueOf(out) - call.n) % 2 ^ IntBits = 0

\* How the text between the quotes is read.
Unescaped(b) ==
    LET read[i \in 1 .. Len(b) + 4] ==
          IF i > Len(b) THEN <<>>
          ELSE IF b[i] = Quote THEN <<"unexpected">>
          ELSE IF b[i] # Backslash THEN <<b[i]>> \o read[i + 1]
          ELSE IF i = Len(b) THEN <<"unexpected">>
          ELSE CASE b[i + 1] = "n" -> <<Newline>> \o read[i + 2]
                 [] b[i + 1] = "0" -> <<Zero>> \o read[i + 2]
                 [] b[i + 1] = "x" -> <<Other>> \o read[i + 4]
                 [] b[i + 1] \in {Quote, Backslash} ->
                        <<b[i + 1]>> \o read[i + 2]
                 [] OTHER -> <<"unexpected">>
    IN  read[1]

\* A printed buffer reads as the buffer, or as the beginning of it followed by
\* dots, whatever characters it holds.  With the terminating zero it needs up to
\* three characters more than the size that is passed, see EscapeFits.
EscapeReadsBack ==
    call.routine = "xprint_escape" =>
        LET body == SubSeq(out, 2, Len(out) - 1)
            dots == Len(body) >= 3 /\ SubSeq(body, Len(body) - 2, Len(body)) = Dots
            read == Unescaped(IF dots THEN SubSeq(body, 1, Len(body) - 3) ELSE body)
        IN  /\ out[1] = Quote /\ out[Len(out)] = Quote
            /\ read = SubSeq(call.src, 1, Len(read))
            /\ dots <=> Len(read) < Len(call.src)
            /\ Len(out) + 1 <= call.dst_size + 3

\* "No more than dst_size characters are written", even if the terminating zero
\* is not counted.  The loop of xprint_escape stops five characters before the
\* end, and an escape sequence of up to four that begins before that is followed
\* by the dots and the quote.
EscapeFits == call.routine = "xprint_escape" => Len(out) <= call.dst_size

\* Every bit that is set is accounted for once: by the first name in the table
\* that has it, or by the number behind the names.  The flags of open also tell
\* the access mode, if it has a name, and O_DIRECTORY only without O_TMPFILE.
FlagsExplained ==
    LET bits(k) == UNION {out.names[j].flag : j \in 1 .. k}
        n == Len(out.names)
        explained(table) ==
            /\ call.flags = (call.flags \cap bits(n)) \cup out.hex
            /\ out.hex \cap UNION {d.flag : d \in ToSet(table)} = {}
            /\ \A k \in 1 .. n :
                  (call.flags \cap out.names[k].flag) \ bits(k - 1) # {}
    IN  /\ call.routine = "print_flag_set" =>
              explained(call.table) /\ (out.zero <=> call.flags = {})
        /\ call.routine = "arg_print_open_flags" =>
              /\ explained(OpenFlags)
              /\ call.mode \in AccessModes => out.mode = call.mode /\ ~out.zero
              /\ O_TMPFILE \in ToSet(out.names) =>
                    \A k \in 2 .. n : out.names[k].flag \cap TmpFile = {}

LastComponent(s) ==
    LET slashes == {i \in 1 .. Len(s) : s[i] = "/"}
        start == CHOOSE i \in slashes \cup {0} : \A j \in slashes : j <= i
    IN  SubSeq(s, start + 1, Len(s))

\* A filter that is a file name selects exactly the processes whose command ends
\* in that name, and no filter selects all.  A process is not selected before its
\* command line is known, and never changes sides afterwards.
FilterIsLastComponent ==
    call.routine = "cmdline_match" =>
        /\ ~out[1]
        /\ out[3] = out[2]
        /\ "/" \notin ToSet(call.filter) =>
              (out[2] <=> \/ call.filter = NULL
                         \/ LastComponent(call.cmdline) = call.filter)
=============================================================================
