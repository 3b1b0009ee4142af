---------------------------- MODULE PathStrings ----------------------------
(***************************************************************************)
(* A CREATE line on its way from the prompt to the disk: the client strips *)
(* it, the naming server strips it again, takes the path out of it and     *)
(* names the backups, and the storage server makes the directories and the *)
(* file.  Strings are what these functions work on, so here a line is the  *)
(* sequence of its characters over a small alphabet; a C buffer has a NUL  *)
(* behind its text.                                                        *)
(*                                                                         *)
(* Any word may stand for the command.  Names with ".." are not looked at. *)
(***************************************************************************)
EXTENDS Naturals, Sequences, FiniteSets, SequencesExt

CONSTANTS
    Lines    \* the lines that may be typed, without their newline

ASSUME LinesAssumption == Lines \subseteq Seq({"a", ".", "/", " ", "\t"})

VARIABLES
    stage,   \* "typed", "sent", "received", "parsed", "stored" or "invalid"
    typed,   \* the line
    text,    \* what became of it
    path,    \* extractPath's result
    third,   \* extractPathThird's result
    backups, \* the backups' paths
    dirs,    \* the directories of the storage server, as names
    file,    \* the file created: the set of its name, or empty
    answer   \* the storage server's answer to CREATE

strVars == <<stage, typed, text, path, third, backups, dirs, file, answer>>

----------------------------------------------------------------------------
(* C strings *)

IsSpace(x) == x \in {" ", "\t", "\n"}

\* The text of a buffer, up to its first NUL.
CString(buf) ==
    SubSeq(buf, 1, CHOOSE n \in 0 .. Len(buf) :
                       /\ n < Len(buf) => buf[n + 1] = "NUL"
                       /\ \A k \in 1 .. n : buf[k] # "NUL")

Positions(s, x) == {k \in DOMAIN s : s[k] = x}

Least(S) == CHOOSE k \in S : \A m \in S : k <= m
Greatest(S) == CHOOSE k \in S : \A m \in S : k >= m

\* strip's start and end: the first character that is no space, counted from 1,
\* and the last; start is behind the text when there is none.
StripStart(s) == Least({k \in DOMAIN s : ~IsSpace(s[k])} \cup {Len(s) + 1})
StripEnd(s) == Greatest({k \in StripStart(s) .. Len(s) : ~IsSpace(s[k])} \cup {StripStart(s) - 1})

----------------------------------------------------------------------------
(* The client program *)

\* strip of clientfunctions.c: the characters are shifted to the start of the
\* buffer, but the NUL is put behind the place where the last one used to be.
ClientStrip(s) ==
    LET start == StripStart(s)
        end == StripEnd(s)
        buf == Append(s, "NUL")
    IN  CString([k \in DOMAIN buf |->
                    IF k = end + 1 THEN "NUL"
                    ELSE IF k <= end - start + 1 THEN buf[start + k - 1] ELSE buf[k]])

\* fgets and strip; a line that starts with no command is not sent.
Type ==
    /\ stage = "typed"
    /\ text' = ClientStrip(Append(typed, "\n"))
    /\ stage' = IF text' = << >> \/ IsSpace(text'[1]) THEN "invalid" ELSE "sent"
    /\ UNCHANGED <<typed, path, third, backups, dirs, file, answer>>

----------------------------------------------------------------------------
(* The naming server *)

\* Mutant: the flag is not reset after a character that is no space.
CondenseStepKeepsFlag(acc, j) ==
    LET x == acc.buf[j] IN
    IF IsSpace(x) /\ acc.inSpace THEN acc
    ELSE [buf |-> [acc.buf EXCEPT ![acc.i] = IF IsSpace(x) THEN " " ELSE x],
          i |-> acc.i + 1,
          inSpace |-> acc.inSpace \/ IsSpace(x)]

\* One turn of the loop that condenses spaces, reading at j and writing at i in
\* the same buffer.
CondenseStep(acc, j) ==
    LET x == acc.buf[j] IN
    IF IsSpace(x) /\ acc.inSpace THEN acc
    ELSE [buf |-> [acc.buf EXCEPT ![acc.i] = IF IsSpace(x) THEN " " ELSE x],
          i |-> acc.i + 1,
          inSpace |-> IsSpace(x)]

Condense(buf, start, end) ==
    LET acc == FoldLeft(CondenseStep, [buf |-> buf, i |-> 1, inSpace |-> FALSE],
                        [k \in 1 .. (end + 1 - start) |-> start + k - 1])
    IN  [acc.buf EXCEPT ![acc.i] = "NUL"]

\* strip of NamingServerModule.c: the loop is run twice, the second time over
\* what the first has written, between the bounds found before.
NamingStrip(s) ==
    LET start == StripStart(s)
        end == StripEnd(s)
    IN  CString(Condense(Condense(Append(s, "NUL"), start, end), start, end))

\* handleClientInput: recv into a cleared buffer, and strip.
Receive ==
    /\ stage = "sent"
    /\ text' = NamingStrip(text)
    /\ stage' = "received"
    /\ UNCHANGED <<typed, path, third, backups, dirs, file, answer>>

\* What follows the n-th space of s, up to the next one; the cleared buffer's
\* empty string when there are fewer than n.
AfterSpace(s, n) ==
    LET spaces == SetToSortSeq(Positions(s, " "), <)
    IN  IF Len(spaces) < n THEN << >>
        ELSE SubSeq(s, spaces[n] + 1, IF n < Len(spaces) THEN spaces[n + 1] - 1 ELSE Len(s))

\* Mutant: the path extends to the end of the line.
ExtractPathRest(input) ==
    LET spaces == SetToSortSeq(Positions(input, " "), <)
    IN  IF spaces = << >> THEN << >> ELSE SubSeq(input, spaces[1] + 1, Len(input))

ExtractPath(input) == AfterSpace(input, 1)

ExtractPathThird(input) == AfterSpace(input, 2)

\* Mutant: the length of the prefix is not skipped.
RemovePrefixNot(s, prefix) == s

RemovePrefix(s, prefix) ==
    IF IsPrefix(prefix, s) THEN SubSeq(s, Len(prefix) + 1, Len(s)) ELSE s

\* "./Backup0%s" and "./Backup1%s"; the directory's name is one character here.
BackupPath(k, p) == <<".", "/", IF k = 0 THEN "Backup0" ELSE "Backup1">> \o RemovePrefix(p, <<".">>)

Parse ==
    /\ stage = "received"
    /\ path' = ExtractPath(text)
    /\ third' = ExtractPathThird(text)
    /\ backups' = <<BackupPath(0, path'), BackupPath(1, path')>>
    /\ stage' = "parsed"
    /\ UNCHANGED <<typed, text, dirs, file, answer>>

----------------------------------------------------------------------------
(* The storage server *)

\* The pieces of s between separators, empty ones left out.
Pieces(s, Separator(_)) ==
    LET starts == {k \in DOMAIN s : ~Separator(s[k]) /\ (k = 1 \/ Separator(s[k - 1]))}
        EndOf(k) == Greatest({m \in k .. Len(s) : \A n \in k .. m : ~Separator(s[n])})
    IN  [n \in 1 .. Cardinality(starts) |->
            LET k == SetToSortSeq(starts, <)[n] IN SubSeq(s, k, EndOf(k))]

\* What the file system makes of a name: where it starts, and its components.
Named(s) ==
    LET IsSlash(x) == x = "/" IN
    (IF s # << >> /\ s[1] = "/" THEN <<"root">> ELSE <<"cwd">>)
        \o SelectSeq(Pieces(s, IsSlash), LAMBDA w : w # <<".">>)

Parent(name) == SubSeq(name, 1, Len(name) - 1)

\* Mutant: the first slash is taken for the last one.
BeforeLastSlashFirst(s) ==
    LET slashes == Positions(s, "/") IN
    IF slashes = {} THEN s ELSE SubSeq(s, 1, Least(slashes) - 1)

\* getSubstringBeforeLastSlash: the whole string when it has no slash.
BeforeLastSlash(s) ==
    LET slashes == Positions(s, "/") IN
    IF slashes = {} THEN s ELSE SubSeq(s, 1, Greatest(slashes) - 1)

\* The names mkdir_p passes to mkdir, in order, and whether it succeeds: mkdir
\* refuses only the empty name here, since the ones above exist by then.
MkdirNames(s) == [n \in 1 .. Cardinality(Positions(s, "/")) |->
                     SubSeq(s, 1, SetToSortSeq(Positions(s, "/"), <)[n] - 1)] \o <<s>>
MkdirOk(s) == \A n \in DOMAIN MkdirNames(s) : MkdirNames(s)[n] # << >>
MkdirMade(s) == {Named(MkdirNames(s)[n]) : n \in {m \in DOMAIN MkdirNames(s) :
                    \A l \in 1 .. m : MkdirNames(s)[l] # << >>}}

\* fopen with mode "w": the directory must exist, and the name not be one.
FopenOk(s, ds) ==
    /\ s # << >> /\ Named(s) \notin ds /\ Parent(Named(s)) \in ds

EndsWithSlash(s) == s # << >> /\ s[Len(s)] = "/"

\* A path that ends with a slash is a directory.
CreateDirectory ==
    /\ stage = "parsed"
    /\ path = << >> \/ EndsWithSlash(path)
    /\ dirs' = dirs \cup MkdirMade(path)
    /\ answer' = IF MkdirOk(path) THEN "1" ELSE "2"
    /\ stage' = "stored"
    /\ UNCHANGED <<typed, text, path, third, backups, file>>

\* Any other is a file: fopen is tried whatever mkdir_p answers.  With an empty
\* path the character before the buffer decides between the two.
CreateFile ==
    /\ stage = "parsed"
    /\ ~EndsWithSlash(path)
    /\ dirs' = dirs \cup MkdirMade(BeforeLastSlash(path))
    /\ IF FopenOk(path, dirs')
       THEN answer' = "4" /\ file' = {Named(path)}
       ELSE answer' = "3" /\ UNCHANGED file
    /\ stage' = "stored"
    /\ UNCHANGED <<typed, text, path, third, backups>>

----------------------------------------------------------------------------
Init ==
    /\ stage = "typed"
    /\ typed \in Lines
    /\ text = << >> /\ path = << >> /\ third = << >> /\ backups = << >>
    /\ dirs = {<<"root">>, <<"cwd">>}
    /\ file = {}
    /\ answer = ""

Next == Type \/ Receive \/ Parse \/ CreateDirectory \/ CreateFile

Spec == Init /\ [][Next]_strVars

----------------------------------------------------------------------------
(* Properties *)

Words(s) == Pieces(s, IsSpace)
Word(s, n) == IF n <= Len(Words(s)) THEN Words(s)[n] ELSE << >>

LeadingBlank == typed # << >> /\ IsSpace(typed[1])

\* The words of a line with one blank between two of them.
Joined(ws) == IF ws = << >> THEN << >>
              ELSE FoldLeft(LAMBDA s, w : s \o <<" ">> \o w, ws[1], Tail(ws))

\* A line that was typed without leading blanks reaches the commands as its
\* words, one blank apart: the two strips, the second of which condenses twice
\* in place, compose to that.
LineIsNormalised ==
    stage \in {"received", "parsed"} /\ ~LeadingBlank => text = Joined(Words(typed))

\* The same for every line: "Function to remove leading and trailing
\* whitespaces and reduce multiple spaces to a single space".
StripRemovesBlanks ==
    stage \in {"received", "parsed"} => text = Joined(Words(typed))

\* The paths looked up are the second and the third word that were typed, and
\* empty when there is none: nothing of an earlier command or of the rest of
\* the line gets into them.
PathsAreTheWords ==
    stage \in {"parsed", "stored"} /\ ~LeadingBlank =>
        path = Word(typed, 2) /\ third = Word(typed, 3)

\* The two backups of a path that starts with "./" lie at the path's own place
\* below the two backup directories, so backups of different paths differ.
BackupsMirrorThePath ==
    stage = "parsed" /\ IsPrefix(<<".", "/">>, path) =>
        \A k \in {0, 1} : Named(backups[k + 1]) =
            <<"cwd", <<IF k = 0 THEN "Backup0" ELSE "Backup1">> >> \o Tail(Named(path))

\* CREATE of a relative path with a directory part makes that file and the
\* directories above it, and no other: mkdir_p walks every prefix.
CreateMakesThePath ==
    (/\ stage = "stored" /\ path # << >>
     /\ path[1] # "/" /\ path[Len(path)] # "/" /\ "/" \in Range(path)
     /\ ~IsSuffix(<<"/", ".">>, path))
    => /\ answer = "4" /\ file = {Named(path)}
       /\ dirs = {<<"root">>} \cup {SubSeq(Named(path), 1, n) : n \in 1 .. Len(Named(path)) - 1}

============================================================================
