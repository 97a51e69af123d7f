-------------------------- MODULE WorkspaceFiles ---------------------------
(***************************************************************************)
(* The files of one user's workspace and their editors (workspace          *)
(* routes/fs.py and terminal.py).  The IDE saves whole files; agents read  *)
(* a file and replace a range of its lines, giving the text they expect    *)
(* there. No handler awaits anything, so each is one step; commands of the *)
(* terminal block the service too.                                         *)
(*                                                                         *)
(* A line is its text and how it ends; only the last one may have no end.  *)
(* Reading turns "\r\n" into "\n" and what is not UTF-8 into a replacement *)
(* character; writing leaves the text as it is.                            *)
(*                                                                         *)
(* Simplifications.  A text is a sequence of tokens, and "\n" and "\r\n"   *)
(* are all the line ends that there are.  Folders are left out but for     *)
(* their removal; so are tree, search, git and paths outside of the        *)
(* workspace, which are refused.                                           *)
(***************************************************************************)
EXTENDS Naturals, SequencesExt

CONSTANTS
  Files,         \* paths
  Words,         \* tokens of texts
  Undecodable,   \* those that are not UTF-8
  Mark,          \* the replacement character
  Folder,        \* of each path
  Editors,
  Contents,      \* what the IDE writes
  Outputs,       \* what only commands write
  Replacements,  \* what agents put in place of lines
  MaxLines,      \* bounds on what replacing can make
  MaxText

VARIABLES
  disk,          \* each file's lines, or Missing
  seen,          \* what each editor read last
  edit           \* history: who has just replaced which lines

fileVars == <<disk, seen, edit>>

Missing == <<[text |-> <<>>, end |-> "missing"]>>   \* no file
NothingSeen == [path |-> "nothing", lines |-> <<>>]
NoEdit == [from |-> 0]   \* the last step was not a replacement

Lines(c) ==
  /\ c \in Seq([text : Seq(Words), end : {"lf", "crlf", "none"}])
  /\ \A n \in DOMAIN c : c[n].end = "none" => n = Len(c)

ASSUME FileAssumption ==
  /\ Mark \in Words \ Undecodable
  /\ \A c \in Contents \cup Outputs \cup Replacements : Lines(c)
  /\ \A c \in Contents \cup Replacements : \A n \in DOMAIN c :
       \A i \in DOMAIN c[n].text : c[n].text[i] \notin Undecodable

FileTypeOK ==
  /\ DOMAIN disk = Files /\ DOMAIN seen = Editors
  /\ \A f \in Files : disk[f] = Missing \/ Lines(disk[f])
  /\ \A x \in Editors : seen[x] # NothingSeen =>
       seen[x].path \in Files /\ Lines(seen[x].lines)
  /\ edit # NoEdit => edit.from \in 1..MaxLines + 1 /\ edit.to \in 0..MaxLines

FileInit ==
  /\ disk = [f \in Files |-> Missing]
  /\ seen = [x \in Editors |-> NothingSeen] /\ edit = NoEdit

-----------------------------------------------------------------------------

OnDisk == {f \in Files : disk[f] # Missing}

\* errors="replace"
Decoded(text) == [i \in DOMAIN text |-> IF text[i] \in Undecodable THEN Mark ELSE text[i]]

\* read_text.
ReadText(f) ==
  [n \in DOMAIN disk[f] |->
     [text |-> Decoded(disk[f][n].text),
      end |-> IF disk[f][n].end = "crlf" THEN "lf" ELSE disk[f][n].end]]

\* write_text of a concatenation: a line without an end runs into the next one.
Concat(a, b) ==
  IF a = <<>> \/ b = <<>> THEN a \o b
  ELSE IF Last(a).end # "none" THEN a \o b
  ELSE Front(a) \o <<[text |-> Last(a).text \o Head(b).text, end |-> Head(b).end]>> \o Tail(b)

\* get_file, or tool_view_file on all lines.
GetFile(x, f) ==
  /\ f \in OnDisk
  /\ seen' = [seen EXCEPT ![x] = [path |-> f, lines |-> ReadText(f)]]
  /\ edit' = NoEdit /\ UNCHANGED disk

WriteFile(f, content) ==
  /\ disk' = [disk EXCEPT ![f] = content]
  /\ edit' = NoEdit /\ UNCHANGED seen

DeleteFile(f) ==
  /\ f \in OnDisk
  /\ disk' = [disk EXCEPT ![f] = Missing]
  /\ edit' = NoEdit /\ UNCHANGED seen

DeleteFolder(d) ==
  /\ \E f \in OnDisk : Folder[f] = d
  /\ disk' = [f \in Files |-> IF Folder[f] = d THEN Missing ELSE disk[f]]
  /\ edit' = NoEdit /\ UNCHANGED seen

\* run_terminal: an allowed command may do anything to a file, even if it is
\* stopped for its time.  A write that is cut off, a handler's too, leaves what was
\* written, or nothing.
RunTerminal(f) ==
  /\ \E content \in Contents \cup Outputs \cup {Missing, <<>>} :
       disk' = [disk EXCEPT ![f] = content]
  /\ edit' = NoEdit /\ UNCHANGED seen

InRange(from, to, total) == from \in 1..total + 1 /\ to \in from - 1..total

EndsLine(c) == c # <<>> /\ Last(c).end # "none"

\* Mutant: no line end is added.
FittedNever(replacement, slice, follows) == replacement

\* A line end is added when lines follow, or when the replaced text had one.
Fitted(replacement, slice, follows) ==
  IF replacement = <<>> \/ EndsLine(replacement) \/ ~(follows \/ EndsLine(slice))
  THEN replacement
  ELSE Front(replacement) \o <<[Last(replacement) EXCEPT !.end = "lf"]>>

Bounded(c) == Len(c) <= MaxLines /\ \A n \in DOMAIN c : Len(c[n].text) <= MaxText

\* tool_replace_lines with lines that the editor has seen.
ReplaceLines(x, from, to, replacement) ==
  LET f == seen[x].path
      text == ReadText(f)
      slice == SubSeq(text, from, to)
      new == Concat(Concat(SubSeq(text, 1, from - 1), Fitted(replacement, slice, to < Len(text))),
                    SubSeq(text, to + 1, Len(text)))
  IN
    /\ f \in OnDisk /\ InRange(from, to, Len(text))
    /\ to < from \/ to <= Len(seen[x].lines)
    /\ slice = SubSeq(seen[x].lines, from, to)
    /\ Bounded(new)
    /\ disk' = [disk EXCEPT ![f] = new]
    /\ edit' = [from |-> from, to |-> to, by |-> x]
    /\ UNCHANGED seen

FileNext ==
  \/ \E f \in Files :
       \/ DeleteFile(f) \/ DeleteFolder(Folder[f]) \/ RunTerminal(f)
       \/ \E c \in Contents : WriteFile(f, c)
       \/ \E x \in Editors : GetFile(x, f)
  \/ \E x \in Editors, from \in 1..MaxLines + 1, to \in 0..MaxLines, r \in Replacements :
       ReplaceLines(x, from, to, r)

FileSpec == FileInit /\ [][FileNext]_fileVars

-----------------------------------------------------------------------------
(* Properties.                                                             *)

(***************************************************************************)
(* Whatever the IDE, a command or another agent did to the file since, the *)
(* lines that are replaced are those the editor saw there, and the lines   *)
(* before and after them stay, as far as they read the same: what was not  *)
(* UTF-8 there and every "\r\n" is rewritten.  The exception: what is      *)
(* appended to a file whose last line has no end becomes part of that      *)
(* line.                                                                   *)
(***************************************************************************)
EditIsPrecise ==
  [][edit' # NoEdit =>
       LET f == seen[edit'.by].path
           old == ReadText(f)
           new == disk'[f]
           from == edit'.from
           to == edit'.to
           after == Len(old) - to
           appends == from > Len(old) /\ ~EndsLine(old)
       IN
         /\ SubSeq(old, from, to) = SubSeq(seen[edit'.by].lines, from, to)
         /\ appends \/ SubSeq(new, 1, from - 1) = SubSeq(old, 1, from - 1)
         /\ SubSeq(new, Len(new) - after + 1, Len(new)) = SubSeq(old, to + 1, Len(old))]_fileVars
=============================================================================
