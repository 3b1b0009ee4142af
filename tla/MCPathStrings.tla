--------------------------- MODULE MCPathStrings ---------------------------
(* Every line up to a length, names with ".." left out.                      *)
EXTENDS PathStrings

CONSTANTS MaxLength, MaxBlankLength

Text(n) == UNION {[1 .. m -> {"a", ".", "/", " ", "\t"}] : m \in 0 .. n}
NoParents(s) == \A k \in 1 .. Len(s) - 1 : s[k] # "." \/ s[k + 1] # "."

\* Lines that start with the command, and all others up to a smaller length.
AllLines == {s \in Text(MaxBlankLength) : NoParents(s)}
                \cup {<<"a", " ">> \o s : s \in {t \in Text(MaxLength - 2) : NoParents(t)}}
============================================================================
