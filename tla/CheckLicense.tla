---------------------------- MODULE CheckLicense ----------------------------
(***************************************************************************)
(* utils/check_license/check-license.c: a license pattern is made from the *)
(* text of a license, and the license and the copyright notices of source  *)
(* files are checked against it.  Files are sequences of characters; each  *)
(* of the strings that the program searches for is one character here.     *)
(***************************************************************************)
EXTENDS Integers, SequencesExt

CONSTANTS
    LICENSE_MAX_LEN,
    YEAR_MIN,
    YEAR_MAX,        \* also YEAR_INIT_MIN
    YEAR_LEN,
    COMMENT_STR_LEN,
    LicenseTexts,    \* files with the text of a license
    SourceFiles      \* files to check, both as described by Rendered

VARIABLES
    pattern_file,    \* the file with the license pattern
    check            \* the latest run of the program, and its outcome

licenseVars == <<pattern_file, check>>

LICENSE_BEG == "Redistribution and use"
LICENSE_END == "THE POSSIBILITY OF SUCH DAMAGE."
COPYRIGHT == "Copyright "
COPYRIGHT_SYMBOL == "(c) "
YEAR_INIT_MIN == YEAR_MAX
YEAR_INIT_MAX == 0

NL == "\n"
SP == " "
isspace(c) == c \in {NL, SP}
Digits == <<"0", "1", "2", "3", "4", "5", "6", "7", "8", "9">>
isdigit(c) == c \in ToSet(Digits)

At(s, i) == IF i \in DOMAIN s THEN s[i] ELSE "NUL"
Least(S) == CHOOSE i \in S : \A j \in S : i <= j
Greatest(S) == CHOOSE i \in S : \A j \in S : j <= i

\* The position of the first c in s, or 0.
strstr(s, c) ==
    LET found == {i \in DOMAIN s : s[i] = c}
    IN  IF found = {} THEN 0 ELSE Least(found)

ASSUME LicenseAssumption ==
    /\ LICENSE_MAX_LEN \in Nat /\ YEAR_LEN \in Nat /\ COMMENT_STR_LEN \in Nat
    /\ YEAR_MIN \in Nat /\ YEAR_MAX \in Nat /\ YEAR_MIN <= YEAR_MAX

-----------------------------------------------------------------------------
(***************************************************************************)
(* Files.  Each line of a file begins with the marker of its comments; the *)
(* words are parted by gaps of several kinds, and follow the notices.      *)
(***************************************************************************)
Gap(kind, marker) ==
    CASE kind = "space" -> <<SP>>
      [] kind = "spaces" -> <<SP, SP>>
      [] kind = "line" -> <<NL>> \o marker
      [] kind = "indented line" -> <<NL>> \o marker \o <<SP, SP>>
      [] kind = "empty line" ->
           <<NL>> \o (IF marker = <<>> THEN <<>> ELSE Front(marker))
           \o <<NL>> \o marker

NoticeText(n) ==
    <<COPYRIGHT>> \o (IF n.symbol THEN <<COPYRIGHT_SYMBOL>> ELSE <<>>)
    \o n.first \o <<n.sep>> \o n.last \o <<n.end>>

Rendered(f) ==
    FlattenSeq([k \in DOMAIN f.notices |->
                   <<NL>> \o f.marker \o NoticeText(f.notices[k])])
    \o <<NL>> \o f.marker
    \o FlattenSeq([k \in DOMAIN f.words |->
                      <<f.words[k]>>
                      \o (IF k = Len(f.words) THEN <<>>
                          ELSE Gap(f.gaps[k], f.marker))])

\* The buffer a file is read to is terminated by what the file leaves of it, or
\* behind the license.  A file that does neither is searched beyond its buffer.
ASSUME FilesAssumption ==
    \A f \in LicenseTexts \cup SourceFiles :
        \/ Len(Rendered(f)) < LICENSE_MAX_LEN
        \/ \A word \in {LICENSE_BEG, LICENSE_END} :
              strstr(Rendered(f), word) \in 1 .. LICENSE_MAX_LEN - 1

-----------------------------------------------------------------------------
(***************************************************************************)
(* format_license.                                                         *)
(***************************************************************************)

\* What precedes the license on its first line, up to the end of the comment
\* string in it, with the newline before; only the newline if nothing does.
\* The code looks for all these without a bound: they are there in any file
\* whose lines begin with a marker of Rendered.
comment_string(buffer, beg) ==
    LET nl == Greatest({i \in 1 .. beg - 1 : buffer[i] = NL})
        str == SubSeq(buffer, nl, nl + COMMENT_STR_LEN - 2)
        word == Least({i \in 2 .. Len(str) : ~isspace(str[i])})
        end == Least({i \in word .. Len(str) : isspace(str[i])})
    IN  IF nl + 1 = beg THEN <<NL>> ELSE SubSeq(str, 1, end - 1)

replace_comments_short(license, comment_str) ==
    LET len == Len(comment_str)
        starts == {i \in 1 .. Len(license) - len + 1 :
                      SubSeq(license, i, i + len - 1) = comment_str}
    IN  [i \in DOMAIN license |->
            IF \E s \in starts : i \in s + 1 .. s + len - 2 THEN SP ELSE license[i]]

\* All but the newline of each comment string becomes spaces.
replace_comments(license, comment_str) ==
    LET len == Len(comment_str)
        starts == {i \in 1 .. Len(license) - len + 1 :
                      SubSeq(license, i, i + len - 1) = comment_str}
    IN  [i \in DOMAIN license |->
            IF \E s \in starts : i \in s + 1 .. s + len - 1 THEN SP ELSE license[i]]

\* Each run of white space becomes one space, the last one nothing.
squeeze(license) ==
    FoldLeft(LAMBDA acc, c :
                 IF isspace(c) THEN [acc EXCEPT !.was_space = TRUE]
                 ELSE [license |-> acc.license
                                     \o (IF acc.was_space THEN <<SP>> ELSE <<>>)
                                     \o <<c>>,
                       was_space |-> FALSE],
             [license |-> <<>>, was_space |-> FALSE], license).license

format_license(license, comment_str) ==
    squeeze(replace_comments(license, comment_str))

-----------------------------------------------------------------------------
(***************************************************************************)
(* analyze_license: the formatted license, and what the buffer then holds. *)
(***************************************************************************)
Bad(why) == [ok |-> FALSE, why |-> why]

strstr2(s, sub1, sub2) == [pos1 |-> strstr(s, sub1), pos2 |-> strstr(s, sub2)]

analyze_license(buffer) ==
    LET found == strstr2(buffer, LICENSE_BEG, LICENSE_END)
        beg == found.pos1
        end == found.pos2
    IN  CASE beg = 0 -> Bad("license start")
          [] beg # 0 /\ end = 0 -> Bad("license end")
          [] beg # 0 /\ end # 0 /\ end < beg -> Bad("assert")
          [] OTHER ->
               LET license == format_license(SubSeq(buffer, beg, end),
                                             comment_string(buffer, beg))
               IN  [ok |-> TRUE, license |-> license,
                    buffer |-> SubSeq(buffer, 1, beg - 1) \o license]

\* The first LICENSE_MAX_LEN characters of a file.
read_buffer(f) ==
    LET file == Rendered(f)
    IN  SubSeq(file, 1, IF Len(file) < LICENSE_MAX_LEN THEN Len(file)
                        ELSE LICENSE_MAX_LEN)

create_pattern(file) == analyze_license(read_buffer(file))

-----------------------------------------------------------------------------
(***************************************************************************)
(* The copyright notices.                                                  *)
(***************************************************************************)
\* The number at position i.
atoi(s, i) ==
    LET end == Least({j \in i .. Len(s) + 1 : ~isdigit(At(s, j))})
        value(c) == strstr(Digits, c) - 1
    IN  FoldLeft(LAMBDA v, c : 10 * v + value(c), 0, SubSeq(s, i, end - 1))

is_year(n) == n \in YEAR_MIN .. YEAR_MAX

\* One round of the loop: the notice behind the COPYRIGHT at position i.
notice(s, i) ==
    LET first_at == IF At(s, i + 1) = COPYRIGHT_SYMBOL THEN i + 2 ELSE i + 1
        first == atoi(s, first_at)
        sep_at == first_at + YEAR_LEN
        last == atoi(s, sep_at + 1)
        one == [first |-> first, last |-> first]
    IN  CASE ~isdigit(At(s, first_at)) -> Bad("no digit")
          [] isdigit(At(s, first_at)) /\ ~is_year(first) -> Bad("first year")
          [] OTHER ->
             CASE At(s, sep_at) = "," -> [ok |-> TRUE, years |-> one]
               [] At(s, sep_at) \notin {",", "-"} -> Bad("- or ,")
               [] At(s, sep_at) = "-" /\ ~isdigit(At(s, sep_at + 1)) ->
                    Bad("no digit after -")
               [] At(s, sep_at) = "-" /\ isdigit(At(s, sep_at + 1))
                     /\ ~is_year(last) -> Bad("second year")
               [] OTHER ->
                    IF At(s, sep_at + 1 + YEAR_LEN) = ","
                    THEN [ok |-> TRUE, years |-> [first |-> first, last |-> last]]
                    ELSE Bad(", expected")

\* The oldest first year, and the newest year, which may be a first one.
widen(acc, years) ==
    [first |-> IF years.first < acc.first THEN years.first ELSE acc.first,
     last |-> Greatest({acc.last, years.first, years.last})]

\* All notices, up to the first wrong one.
copyright(s) ==
    LET step(acc, i) ==
          IF s[i] # COPYRIGHT \/ ~acc.ok THEN acc
          ELSE LET n == notice(s, i)
               IN  IF n.ok THEN [acc EXCEPT !.years = widen(@, n.years)] ELSE n
        all == FoldLeft(step,
                        [ok |-> TRUE, years |-> [first |-> YEAR_INIT_MIN,
                                                 last |-> YEAR_INIT_MAX]],
                        [i \in DOMAIN s |-> i])
    IN  IF all.ok /\ all.years.first = YEAR_INIT_MIN
        THEN Bad("no Copyright") ELSE all

-----------------------------------------------------------------------------
(***************************************************************************)
(* verify_license, and the modes of the program.                           *)
(***************************************************************************)
verify_license(file, pattern) ==
    LET a == analyze_license(read_buffer(file))
        c == copyright(a.buffer)
    IN  IF ~a.ok THEN a
        ELSE IF ~IsPrefix(pattern, a.license) THEN Bad("license")
        ELSE c

NoFile == [state |-> "none"]

LicenseInit ==
    /\ pattern_file = NoFile
    /\ check = [mode |-> "none"]

Verdict(mode, license, file, out) ==
    check' = [mode |-> mode, license |-> license, file |-> file, out |-> out]

Created(ret) == check' = [mode |-> "create", ret |-> ret]

\* There is no pattern file yet; writing it may fail half way, which leaves a
\* short file.
write_pattern(license, pattern) ==
    \/ /\ pattern_file # NoFile
       /\ Created(-1)
       /\ UNCHANGED pattern_file
    \/ /\ pattern_file = NoFile
       /\ \E state \in {"full", "short"} :
             /\ pattern_file' = [state |-> state, license |-> license,
                                 pattern |-> pattern]
             /\ Created(IF state = "full" THEN 0 ELSE -1)

\* The mode "create".
mode_create_pattern_file(license) ==
    LET p == create_pattern(license)
    IN  \/ p.ok /\ write_pattern(license, p.license)
        \/ ~p.ok /\ Created(-1) /\ UNCHANGED pattern_file

\* Only a file of the right size is taken.
read_pattern ==
    IF pattern_file.state = "full"
    THEN [ok |-> TRUE, pattern |-> pattern_file.pattern]
    ELSE Bad("pattern file")

\* The mode "check-pattern".
mode_check_license(file) ==
    /\ pattern_file # NoFile
    /\ Verdict("check-pattern", pattern_file.license, file,
               IF read_pattern.ok THEN verify_license(file, read_pattern.pattern)
               ELSE read_pattern)
    /\ UNCHANGED pattern_file

\* The mode "check-license" makes the pattern anew from the text of the license.
mode_check_pattern(license, file) ==
    LET p == create_pattern(license)
    IN  /\ Verdict("check-license", license, file,
                   IF p.ok THEN verify_license(file, p.license) ELSE p)
        /\ UNCHANGED pattern_file

\* A file that is to be read is missing: -1, and nothing is written.
MissingFile ==
    /\ Created(-1)
    /\ UNCHANGED pattern_file

LicenseNext ==
    \/ \E license \in LicenseTexts : mode_create_pattern_file(license)
    \/ \E file \in SourceFiles : mode_check_license(file)
    \/ \E license \in LicenseTexts, file \in SourceFiles :
          mode_check_pattern(license, file)
    \/ MissingFile

-----------------------------------------------------------------------------
(***************************************************************************)
(* Properties.                                                             *)
(***************************************************************************)
\* The words of a license, from its first to its last; none if it is not
\* complete.
LicenseWords(f) ==
    LET beg == strstr(f.words, LICENSE_BEG)
        end == strstr(f.words, LICENSE_END)
    IN  IF beg = 0 \/ end = 0 \/ end < beg THEN <<>> ELSE SubSeq(f.words, beg, end)

YearOf(digits) == atoi(digits, 1)
IsYear(digits) == Len(digits) = YEAR_LEN /\ is_year(YearOf(digits))

GoodNotice(n) ==
    /\ IsYear(n.first)
    /\ \/ n.sep = ","
       \/ n.sep = "-" /\ IsYear(n.last) /\ n.end = ","

YearsOf(f) ==
    LET ns == ToSet(f.notices)
    IN  [first |-> Least({YearOf(n.first) : n \in ns}),
         last |-> Greatest({YearOf(n.first) : n \in ns} \cup
                           {YearOf(n.last) : n \in {m \in ns : m.sep = "-"}})]

\* A file passes exactly if it has the words of the license, however they are
\* laid out and commented, and all copyright notices before are well formed, one
\* of them with a first year before the last possible one (which the program
\* takes for the absence of a notice).  The years that are printed are then the
\* oldest and the newest of its notices.  A pattern file serves as well as the
\* text it was first made from, unless it was not written completely.
VerdictExact ==
    check.mode \in {"check-pattern", "check-license"} =>
        LET f == check.file
        IN  /\ check.out.ok <=>
                  /\ LicenseWords(f) # <<>>
                  /\ LicenseWords(f) = LicenseWords(check.license)
                  /\ \A n \in ToSet(f.notices) : GoodNotice(n)
                  /\ \E n \in ToSet(f.notices) : YearOf(n.first) < YEAR_MAX
                  /\ check.mode = "check-pattern" => pattern_file.state = "full"
            /\ check.out.ok => check.out.years = YearsOf(f)
=============================================================================
