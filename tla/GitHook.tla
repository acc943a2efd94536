------------------------------ MODULE GitHook ------------------------------
(***************************************************************************)
(* The pre-commit hook of internal/hook/git.go: install, upgrade from the  *)
(* block of an old release, and uninstall, of a file that the user edits   *)
(* too. os.WriteFile truncates before it writes, and a command may be      *)
(* killed in between.                                                      *)
(*                                                                         *)
(* A text is a sequence of pieces: the newline, a line of the user's, a    *)
(* shebang, and the parts of a managed block. Two pieces with no newline   *)
(* between them are one line. Where git looks for the file (core.hooksPath)*)
(* is left out, and what the block runs is in Scanner.tla. The user leaves *)
(* the block itself alone, and its markers are in no line of his.          *)
(***************************************************************************)
EXTENDS SequencesExt, Naturals

CONSTANTS UserLines,    \* lines a user writes
          MaxEdits      \* bound on the edits of a history

Shebang == "#!/bin/sh"
Marks == {"NL", Shebang, "begin", "v1", "v2", "end"}
Pieces == UserLines \cup Marks

GitHookAssumption == /\ UserLines \cap Marks = {}
                     /\ MaxEdits \in Nat

VARIABLES file,      \* the hook
          own,       \* the user's lines, in their order
          before,    \* the hook as an install found it
          edited,    \* whether the user has edited it since
          last,      \* the last command that reported success
          pc,        \* where the command that runs stands
          out,       \* the text it is going to write
          edits,
          excused    \* a kill, an overlapping edit or a join cost a line

vars == <<file, own, before, edited, last, pc, out, edits, excused>>

Absent == [present |-> FALSE, exec |-> FALSE, text |-> <<>>]
Hook(x, t) == [present |-> TRUE, exec |-> x, text |-> t]

(* A block of a release, as every release writes it.                       *)
Block(v) == <<"begin", "NL", v, "NL", "end", "NL">>

Index(t, p) == SelectInSeq(t, LAMBDA q : q = p)

(* The lines of the user's that stand in t on a line of their own.         *)
Alone(t, i) == t[i] \in UserLines /\ \A j \in {i - 1, i + 1} \cap DOMAIN t : t[j] = "NL"
LinesOf(t) == LET at == {i \in DOMAIN t : Alone(t, i)}
              IN [k \in 1 .. Cardinality(at) |->
                    t[CHOOSE i \in at : Cardinality({j \in at : j <= i}) = k]]

TypeOK == /\ file.present \in BOOLEAN /\ file.exec \in BOOLEAN
          /\ file.text \in Seq(Pieces) /\ (~file.present => file = Absent)
          /\ before.text \in Seq(Pieces) /\ out \in Seq(Pieces)
          /\ own \in Seq(UserLines)
          /\ edited \in BOOLEAN /\ excused \in BOOLEAN
          /\ last \in {"none", "install", "uninstall"}
          /\ pc \in {"idle", "remove", "truncate", "write"}
          /\ edits \in 0 .. MaxEdits
          /\ \A t \in {file.text, out} : Cardinality({i \in DOMAIN t : t[i] = "begin"}) <= 1

(* What a user may have: no hook, an empty one, one of a line that is or   *)
(* is not terminated, or blank at the end; with the block of an old        *)
(* release, and with a line after it.                                      *)
Originals == {<<>>, <<Shebang, "NL">>}
               \cup UNION {{<<Shebang, "NL", l>>, <<Shebang, "NL", l, "NL">>,
                            <<Shebang, "NL", l, "NL", "NL">>} : l \in UserLines}

Init == /\ \/ file = Absent /\ before = Absent
           \/ \E t \in Originals, x \in BOOLEAN :
                file = Hook(x, t) /\ before = file
           \/ \E t \in Originals, tail \in {<<>>} \cup {<<l, "NL">> : l \in UserLines} :
                /\ before = IF t = <<>> THEN Absent ELSE Hook(TRUE, t)
                /\ file = Hook(TRUE, (IF t = <<>> THEN <<Shebang>> ELSE t)
                                        \o <<"NL">> \o Block("v1") \o tail)
        /\ own = LinesOf(file.text)
        /\ edited = (file.text # <<>> /\ Last(file.text) = "NL"
                       /\ Index(file.text, "end") \notin {0, Len(file.text) - 1})
        /\ last = "none"
        /\ pc = "idle" /\ out = <<>> /\ edits = 0
        /\ excused = FALSE

-----------------------------------------------------------------------------
(* The text before the block, with the newline that install put there; and *)
(* the text after it.                                                      *)
Above(t) == SubSeq(t, 1, Index(t, "begin") - 1)
Below(t) == LET e == Index(t, "end")
               n == SelectInSubSeq(t, e, Len(t), LAMBDA p : p = "NL")
           IN IF n = 0 THEN <<>> ELSE SubSeq(t, n + 1, Len(t))

(* A mutant: the newline that install has put before the block stays.      *)
stripSeparatorKept(t) == IF Index(t, "begin") = 0 THEN t ELSE Above(t) \o Below(t)

(* A mutant: everything from the block on is dropped.                      *)
stripBelow(t) == IF Index(t, "begin") = 0 THEN t ELSE Front(Above(t))

stripCifraBlock(t) ==
  IF Index(t, "begin") = 0 THEN t
  ELSE LET h == Above(t)
       IN (IF h # <<>> /\ Last(h) = "NL" THEN Front(h) ELSE h) \o Below(t)

(* The strip joins the last line before the block and the first after it:  *)
(* the newline it takes was the only one between the two.                  *)
Joins(t) == /\ Index(t, "begin") > 2
            /\ t[Index(t, "begin") - 2] # "NL"
            /\ Below(t) # <<>>

(* A mutant: an old block is taken for this release's.                     *)
installAnyVersion(t) ==
  IF Index(t, "begin") # 0 THEN t
  ELSE (IF t = <<>> THEN <<Shebang>> ELSE t) \o <<"NL">> \o Block("v2")

(* A mutant: an older block is left where it is.                           *)
installBeside(t) ==
  IF Index(t, "v2") # 0 THEN t
  ELSE (IF t = <<>> THEN <<Shebang>> ELSE t) \o <<"NL">> \o Block("v2")

(* What InstallGitHook makes of the text: this release's block is a no-op, *)
(* an older one is replaced.                                               *)
installed(t) ==
  IF Index(t, "v2") # 0 THEN t
  ELSE LET c == stripCifraBlock(t)
       IN (IF c = <<>> THEN <<Shebang>> ELSE c) \o <<"NL">> \o Block("v2")

(* Blank, or blank but for one shebang.                                    *)
Trivial(t) == \/ ToSet(t) \subseteq {"NL"}
              \/ \E i \in DOMAIN t : /\ t[i] = Shebang
                                     /\ \A j \in DOMAIN t \ {i} : t[j] = "NL"

(* Reads the file, and decides.                                            *)
InstallGitHook ==
  /\ pc = "idle"
  /\ last' = "install"
  /\ IF Index(file.text, "begin") = 0
     THEN before' = file /\ edited' = FALSE
     ELSE UNCHANGED <<before, edited>>
  /\ out' = installed(file.text)
  /\ pc' = IF out' = file.text THEN "idle" ELSE "truncate"
  /\ excused' = (excused \/ (pc' = "truncate" /\ Joins(file.text)))
  /\ UNCHANGED <<file, own, edits>>

UninstallGitHook ==
  /\ pc = "idle"
  /\ last' = "uninstall"
  /\ out' = stripCifraBlock(file.text)
  /\ pc' = IF ~file.present THEN "idle"
           ELSE IF Trivial(out') THEN "remove" ELSE "truncate"
  /\ excused' = (excused \/ Joins(file.text))
  /\ UNCHANGED <<file, own, before, edited, edits>>

RemoveHook ==
  /\ pc = "remove"
  /\ file' = Absent
  /\ pc' = "idle"
  /\ UNCHANGED <<own, before, edited, last, out, edits, excused>>

(* The mode applies to a file that is made, not to one that was there.     *)
Truncate ==
  /\ pc = "truncate"
  /\ file' = Hook(file.present => file.exec, <<>>)
  /\ pc' = "write"
  /\ UNCHANGED <<own, before, edited, last, out, edits, excused>>

Write ==
  /\ pc = "write"
  /\ file' = [file EXCEPT !.text = out]
  /\ pc' = "idle"
  /\ UNCHANGED <<own, before, edited, last, out, edits, excused>>

(* A kill costs the file only between truncation and write.                *)
Kill ==
  /\ pc # "idle"
  /\ pc' = "idle"
  /\ last' = "none"
  /\ excused' = (excused \/ pc = "write")
  /\ UNCHANGED <<file, own, before, edited, out, edits>>

-----------------------------------------------------------------------------
(* The user saves a new text of the file: with a line more at the end or   *)
(* in front of the block, or one less. Over a command that has read the    *)
(* file and not written it, the edit is lost.                              *)
Edit(t, lines) ==
  /\ edits < MaxEdits /\ ~excused
  /\ pc # "write"
  /\ file' = [file EXCEPT !.present = TRUE, !.text = t]
  /\ own' = lines
  /\ edits' = edits + 1
  /\ edited' = TRUE
  /\ excused' = (pc # "idle")
  /\ UNCHANGED <<before, last, pc, out>>

EditAppend ==
  \E l \in UserLines :
    Edit((IF file.text = <<>> \/ Last(file.text) = "NL" THEN file.text
          ELSE Append(file.text, "NL")) \o <<l, "NL">>,
         Append(own, l))

EditInsert ==
  /\ Index(file.text, "begin") # 0
  /\ \E l \in UserLines :
       Edit(Above(file.text) \o <<l, "NL">> \o SubSeq(file.text, Index(file.text, "begin"), Len(file.text)),
            InsertAt(own, Len(LinesOf(Above(file.text))) + 1, l))

EditRemove ==
  \E i \in DOMAIN file.text :
    /\ Alone(file.text, i)
    /\ Edit(SubSeq(file.text, 1, i - 1) \o SubSeq(file.text, i + 2, Len(file.text)),
            RemoveAt(own, Len(LinesOf(SubSeq(file.text, 1, i)))))

Next == \/ InstallGitHook \/ UninstallGitHook
        \/ RemoveHook \/ Truncate \/ Write \/ Kill
        \/ EditAppend \/ EditInsert \/ EditRemove

Spec == Init /\ [][Next]_vars

-----------------------------------------------------------------------------
(* An uninstall leaves what an install found, byte for byte, through any   *)
(* number of installs, upgrades and uninstalls, and kills before a         *)
(* truncation, as long as the user has not edited the file in between; a   *)
(* hook that holds nothing but a shebang is removed (git.go:105-111).      *)
UninstallRestores ==
  (pc = "idle" /\ last = "uninstall" /\ ~edited /\ ~excused) =>
     file = IF Trivial(before.text) THEN Absent ELSE before

(* Whatever is installed, upgraded, uninstalled and edited, the user's     *)
(* lines are in the file, in order and each on its own, unless a kill hit  *)
(* between truncation and write, an edit fell into a command, or he wrote  *)
(* a line after the block where what is before it ends unterminated: then  *)
(* the strip joins two lines ("any surrounding content is left intact",    *)
(* git.go:14). A hook that the install itself has made ends so: the strip  *)
(* takes the only newline behind its shebang.                              *)
OwnLinesStay == (pc # "write" /\ ~excused) => LinesOf(file.text) = own

Holds(t, v) == \E i \in 1 .. Len(t) - 5 : /\ SubSeq(t, i, i + 5) = Block(v)
                                         /\ \A j \in {i - 1} \cap DOMAIN t : t[j] = "NL"

(* After an install that reports success the hook runs this release's      *)
(* block, whole and on lines of its own, and no older one, until an        *)
(* uninstall begins: whatever kills have left in the file before, and      *)
(* whatever lines the user adds or removes around it.                      *)
InstalledHookIsCurrent ==
  (pc = "idle" /\ last = "install") => /\ Holds(file.text, "v2")
                                      /\ Index(file.text, "v1") = 0

(* "The resulting file is always made executable (0755)." (git.go:72) A    *)
(* hook that was there before keeps the mode it had: os.WriteFile applies  *)
(* its mode to a file that it makes.                                       *)
InstalledIsExecutable == (pc = "idle" /\ last = "install") => file.exec
=============================================================================
