----------------------------- MODULE ConfigLines -----------------------------
(***************************************************************************)
(* The text of configuration files as config_ui.rs takes it apart.  A      *)
(* logical line is a key and the rest of the line, a sequence of lexemes:  *)
(* words and the characters at which some function splits ("/", ",", blank *)
(* and, inside the value of an extra, the newline).  Comments and empty    *)
(* lines are left out, and lines continued with a backslash are joined     *)
(* already (logical_lines); the two markers of the managed block, which    *)
(* are comments too, stay as lines of their own.                           *)
(***************************************************************************)
EXTENDS Integers, Sequences, SequencesExt

Line(key, val) == [key |-> key, val |-> val]

\* One line with this key for each of the values.
Lines(key, vals) == [i \in DOMAIN vals |-> Line(key, vals[i])]

Begin == Line("BEGIN", <<>>)
End == Line("END", <<>>)

WithKeys(lines, keys) == SelectSeq(lines, LAMBDA l : l.key \in keys)

\* The first element, if there is one.
First(s) == IF s = <<>> THEN <<>> ELSE <<Head(s)>>

Words(val) == SelectSeq(val, LAMBDA x : x # " ")

\* str::trim
Trim(val) ==
    LET word == {i \in DOMAIN val : val[i] # " "} IN
    IF word = {} THEN <<>> ELSE SubSeq(val, Min(word), Max(word))

\* The nonempty pieces between separators, as split, trim and filter leave them.
Pieces(val, seps) ==
    LET cuts == SetToSortSeq({0, Len(val) + 1} \cup {i \in DOMAIN val : val[i] \in seps}, <)
        piece == [k \in 1..(Len(cuts) - 1) |-> Trim(SubSeq(val, cuts[k] + 1, cuts[k + 1] - 1))]
    IN SelectSeq(piece, LAMBDA p : p # <<>>)

\* Rules for addresses, as the pages and the overview tell them from others.
IpRuleKeys == {"ip-rules", "whitelist-ip", "blacklist-ip", "ignore-ip", "bogus-nxdomain",
               "ip-alias"}

-----------------------------------------------------------------------------

\* The word after the first occurrence of an option, <<>> without one.
NamedOption(val, name) ==
    LET w == Words(val)
        at == SelectInSeq(w, LAMBDA x : x = name)
    IN IF at = 0 \/ at = Len(w) THEN <<>> ELSE <<w[at + 1]>>

SplitTargetOptions(val) ==
    LET slash == {i \in 2..(Len(val) - 1) : val[i] = "/" /\ val[i + 1] = " "}
        blank == {i \in DOMAIN val : val[i] = " "}
        Cut(i, j) == [target |-> SubSeq(val, 1, i - 1), value |-> Trim(SubSeq(val, j, Len(val)))]
    IN CASE val # <<>> /\ val[1] = "/" /\ slash # {} -> Cut(Min(slash), Min(slash) + 2)
         [] blank # {} -> Cut(Min(blank), Min(blank) + 1)
         [] OTHER -> [target |-> val, value |-> <<>>]

\* A target between slashes ends at the last slash of the line.
SplitTargetValue(val) ==
    LET slash == {i \in 2..Len(val) : val[i] = "/"} IN
    IF val # <<>> /\ val[1] = "/" /\ slash # {}
    THEN [target |-> SubSeq(val, 1, Max(slash) - 1),
          value |-> Trim(SubSeq(val, Max(slash) + 1, Len(val)))]
    ELSE SplitTargetOptions(val)
=============================================================================
