--------------------------- MODULE MCConversions ---------------------------
(***************************************************************************)
(* InterceptLog with three threads; LogFormat on buffers of every kind of  *)
(* character and on tables of flags as they occur in intercept_log.c;      *)
(* CheckLicense on files in several layouts, with right and wrong licenses *)
(* and notices.                                                            *)
(***************************************************************************)
EXTENDS InterceptLog, LogFormat, CheckLicense

CONSTANTS MaxBuffer, MaxString, t1, t2, t3

VARIABLE part       \* which of the three is looked at

MCThreads == {t1, t2, t3}
Symmetry == Permutations(MCThreads)

MCBuffers ==
    UNION {[1 .. n -> Printable \cup {Quote, Backslash, Newline, Zero, Other}] :
            n \in 0 .. MaxBuffer}

MCStrings == UNION {[1 .. n -> {"/", "a", "b"}] : n \in 0 .. MaxString}

\* O_DSYNC is a part of O_SYNC, and O_RSYNC is the same as O_SYNC.
open_flags ==
    <<[flag |-> {5}, printable_name |-> "O_DIRECTORY"],
      [flag |-> {1}, printable_name |-> "O_DSYNC"],
      [flag |-> {3}, printable_name |-> "O_NOCTTY"],
      [flag |-> {1, 2}, printable_name |-> "O_RSYNC"],
      [flag |-> {1, 2}, printable_name |-> "O_SYNC"]>>

access_modes ==
    <<[flag |-> {3}, printable_name |-> "R_OK"],
      [flag |-> {2}, printable_name |-> "W_OK"],
      [flag |-> {1}, printable_name |-> "X_OK"]>>

flock_type ==
    <<[flag |-> {}, printable_name |-> "F_RDLCK"],
      [flag |-> {1}, printable_name |-> "F_WRLCK"],
      [flag |-> {2}, printable_name |-> "F_UNLCK"]>>

AllTables == {open_flags, access_modes, flock_type}

-----------------------------------------------------------------------------
Stars == <<" ", "*", " ">>
Hash == <<"#", " ">>
Text == <<LICENSE_BEG, "a", LICENSE_END>>
\* One whose middle looks like a comment, and one with code behind it.
OtherTexts == {<<LICENSE_BEG, "*", LICENSE_END>>, <<LICENSE_BEG, LICENSE_END, "a">>}
\* One in a file that is longer than the buffer.
LongText == Text \o <<COPYRIGHT, "a">>
BadTexts == {<<LICENSE_BEG, "a">>, <<"a", LICENSE_END>>}

Plain ==
    [symbol |-> TRUE, first |-> <<"2", "0">>, sep |-> ",", last |-> <<>>, end |-> "x"]

\* Years in the wrong order, the first and the last possible year.
GoodNotices ==
    [symbol : BOOLEAN, first : {<<"1", "9">>, <<"9", "9">>, <<"2", "0">>},
     sep : {",", "-"}, last : {<<"2", "1">>, <<"1", "9">>}, end : {","}]

\* No year, too early a year, a leading zero, too many digits.
OtherNotices ==
    [symbol : {FALSE},
     first : {<<>>, <<"1", "8">>, <<"0", "1", "9">>, <<"1", "9", "0">>, <<"2", "0">>},
     sep : {",", "-", "x"},
     last : {<<"2", "1">>, <<>>, <<"1", "8">>, <<"0", "1", "9">>, <<"9", "9">>},
     end : {",", "x"}]

MCLicenseTexts ==
    [words : {Text, <<LICENSE_BEG, LICENSE_END, "a">>, <<LICENSE_BEG, "a">>},
     marker : {<<>>, Hash}, gaps : {<<"line", "empty line">>}, notices : {<<>>}]

MCSourceFiles ==
    [words : {Text} \cup OtherTexts \cup BadTexts, marker : {<<>>, Stars, Hash},
     gaps : [1 .. 2 -> {"spaces", "line", "indented line", "empty line"}],
     notices : {<<Plain>>}]
    \cup
    [words : {LongText}, marker : {Stars},
     gaps : {<<"line", "line", "empty line", "empty line">>}, notices : {<<Plain>>}]
    \cup
    [words : {Text}, marker : {Stars}, gaps : {<<"space", "line">>},
     notices : {<<>>} \cup [1 .. 1 -> GoodNotices \cup OtherNotices]
                      \cup [1 .. 2 -> {n \in GoodNotices : n.symbol}]]

-----------------------------------------------------------------------------
Quiet == check.mode \in {"none", "create"}

MCInit ==
    /\ part \in {"log", "format", "license"}
    /\ Init /\ FormatInit /\ LicenseInit
    /\ part # "log" => files = [fd \in Fds |-> "closed"]

\* A conversion, and a check of a file, is the last step of its behaviour.
MCNext ==
    /\ UNCHANGED part
    /\ \/ part = "log" /\ Next /\ UNCHANGED <<formatVars, licenseVars>>
       \/ part = "format" /\ FormatNext /\ UNCHANGED <<vars, licenseVars>>
       \/ part = "license" /\ Quiet /\ LicenseNext /\ UNCHANGED <<vars, formatVars>>

MCSpec == MCInit /\ [][MCNext]_<<part, vars, formatVars, licenseVars>>

-----------------------------------------------------------------------------
\* The routines of LogFormat alone.
FormatOnly == MCInit /\ part = "format"
MCFormatSpec == FormatOnly /\ [][MCNext]_<<part, vars, formatVars, licenseVars>>
=============================================================================
