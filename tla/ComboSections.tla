--------------------------- MODULE ComboSections ---------------------------
(***************************************************************************)
(* The lists of all combo boxes of a program kept in one text file         *)
(* (phutils/my_widget.cpp).  Save_Combo_To_File adds a section for a box   *)
(* at the end of the file, "@tag number selection" and a line per item;    *)
(* Load_Combo_From_File, in two versions, fills a box from the first       *)
(* section of its tag.  What is written may be cut off anywhere: fprintf   *)
(* is buffered, nothing looks at its result and that of fclose, and the    *)
(* program may be killed.  A line cut off is joined with the next heading. *)
(*                                                                         *)
(* Of a cut line only matters how it reads.  Numbers have one digit, and   *)
(* tags, texts and joined lines fit in their buffers.                      *)
(***************************************************************************)
EXTENDS Naturals, Sequences, FiniteSets, SequencesExt

CONSTANTS
    Tags,
    Texts,
    AtTexts,         \* those with an '@', which the search cannot read as a heading
    COMBO_LIST_MAX,  \* items that are loaded (10)
    MaxSaves, MaxCuts

VARIABLES
    file,      \* its lines
    tail,      \* where its last line is cut off: after "text", the "at" of a heading or
               \* its tag, a "number" expected, before the line feed of a "heading", or None
    items,     \* for each tag the list of its box, lines like those of the file
    sel,       \* ... and the position selected
    saves, cuts,
    first,     \* history: list and selection of the first section of a tag whose
               \* heading can be read, and whether all of it was written
    loaded     \* history: tags whose box was empty and is as it was loaded

vars == <<file, tail, items, sel, saves, cuts, first, loaded>>

None == ""   \* no tag, no text, not cut off

Heading(tag, list, k) == [tag |-> tag, number |-> Len(list), selection |-> k, text |-> None]
Item(t) == [tag |-> None, number |-> 0, selection |-> 0, text |-> t]
Section(tag, list, k) == <<Heading(tag, list, k)>> \o list

AddLast(list, l) == IF l \in ToSet(list) THEN list ELSE Append(list, l)
AddFirst(list, l) == IF l \in ToSet(list) THEN list ELSE <<l>> \o list
PositionOf(t, list) == CHOOSE i \in DOMAIN list : list[i] = t

-----------------------------------------------------------------------------
(* How a line may be cut off, and what is left of it then.  A text with an *)
(* '@', or a line once joined, has the parts of a heading.                 *)
CutAs(l) ==
    {how \in {"text", "at", "number", "heading"} :
       /\ how = "text" => l.text # None
       /\ how \in {"at", "number"} => l.tag # None \/ l.text \in AtTexts \cup {"cut@", "joined"}
       /\ how = "heading" => l.tag # None \/ l.text = "joined"}
Piece(l, how) ==
    CASE how = "text" -> Item("cut") [] how = "heading" -> l [] OTHER -> Item("cut@")

(* The last line, cut off, and what is written next, a heading or a piece  *)
(* of one.  In "ab@tag 2 1" the heading is read; "@ta@tag 2 1" is that of  *)
(* another tag; "@tag 3@tag 2 1" cannot be read, and in "@tag 3 1@tag 2 1" *)
(* it is the old heading that is.                                          *)
Joined(last, l) ==
    CASE tail = "text" /\ l.tag # None -> [l EXCEPT !.text = "cut"]
      [] tail = "at" /\ l.tag # None -> Item("joined")
      [] tail \in {"text", "at"} /\ l.tag = None -> l
      [] tail \in {"number", "heading"} -> last
Write(lines) ==
    IF tail = None \/ lines = <<>> THEN file \o lines
    ELSE Front(file) \o <<Joined(Last(file), lines[1])>> \o Tail(lines)

(* Save_Combo_To_File with the text t in the box: a new text goes first.   *)
(* Of the section the first n lines get into the file, and a piece of the  *)
(* next if it is cut in one.                                               *)
Save_Combo_To_File(tag, t, n, how) ==
    /\ saves < MaxSaves /\ saves' = saves + 1
    /\ LET list == AddFirst(items[tag], Item(t))
           k == PositionOf(Item(t), list)
           section == Section(tag, list, k)
           whole == n = Len(section)
           lines == SubSeq(section, 1, n)
             \o (IF how = None THEN <<>> ELSE <<Piece(section[n + 1], how)>>)
       IN
       /\ n \in 0 .. Len(section)
       /\ how # None => ~whole /\ how \in CutAs(section[n + 1])
       /\ IF whole THEN UNCHANGED cuts ELSE cuts < MaxCuts /\ cuts' = cuts + 1
       /\ file' = Write(lines)
       /\ tail' = IF n = 0 /\ (how = None \/ tail \in {"number", "heading"}) THEN tail ELSE how
       /\ items' = [items EXCEPT ![tag] = list]
       /\ first' = IF first[tag] = <<>> /\ (n > 0 \/ how = "heading") /\ tail \in {None, "text"}
                    THEN [first EXCEPT ![tag] = <<list, k, whole>>] ELSE first
    /\ loaded' = loaded \ {tag}
    /\ UNCHANGED sel

(* The search for the heading: the version that is given the tag gives up  *)
(* at a line with an '@' it cannot read, the other one goes on.            *)
Headings(tag) == {i \in DOMAIN file : file[i].tag = tag}
Misleading(i) == file[i].tag = None /\ file[i].text \in AtTexts \cup {"cut@"}
FoundLast(tag, strict) ==
    {i \in Headings(tag) : /\ \A j \in Headings(tag) : j <= i
                           /\ \A j \in 1 .. i - 1 : ~(strict /\ Misleading(j))}
Found(tag, strict) ==
    {i \in Headings(tag) : \A j \in 1 .. i - 1 : j \notin Headings(tag) /\ ~(strict /\ Misleading(j))}

Least(a, b) == IF a <= b THEN a ELSE b

(* A cut section ends early: what follows it is read as its items. *)
Fill(tag, i) ==
    LET num == Least(file[i].number, COMBO_LIST_MAX) IN
    /\ items' = [items EXCEPT ![tag] =
                   FoldLeft(AddLast, @, SubSeq(file, i + 1, Least(i + num, Len(file))))]
    /\ sel' = [sel EXCEPT ![tag] = Least(file[i].selection, num)]
    /\ loaded' = IF items[tag] = <<>> THEN loaded \cup {tag} ELSE loaded \ {tag}
    /\ UNCHANGED <<file, tail, saves, cuts, first>>

(* Load_Combo_From_File with a tag, and with that of the widget.  Without  *)
(* a section the box is left alone.                                        *)
LoadOfTag(tag) == \E i \in Found(tag, TRUE) : Fill(tag, i)
LoadOfWidget(tag) == \E i \in Found(tag, FALSE) : Fill(tag, i)

(* The program ends; its next run begins with empty boxes. *)
Restart ==
    /\ items' = [tag \in Tags |-> <<>>] /\ sel' = [tag \in Tags |-> 0]
    /\ loaded' = {}
    /\ UNCHANGED <<file, tail, saves, cuts, first>>

-----------------------------------------------------------------------------
Init ==
    /\ file = <<>> /\ tail = None
    /\ items = [tag \in Tags |-> <<>>] /\ sel = [tag \in Tags |-> 0]
    /\ saves = 0 /\ cuts = 0
    /\ first = [tag \in Tags |-> <<>>]
    /\ loaded = {}

Next ==
    \/ \E tag \in Tags, t \in Texts :
           \E n \in 0 .. Len(items[tag]) + 2, how \in {None, "text", "at", "number", "heading"} :
               Save_Combo_To_File(tag, t, n, how)
    \/ \E tag \in Tags : LoadOfTag(tag) \/ LoadOfWidget(tag)
    \/ Restart

Spec == Init /\ [][Next]_vars

-----------------------------------------------------------------------------
(* A box is loaded with the list first saved under its tag, as much of it  *)
(* as is loaded at all, and with the same item selected if that is one of  *)
(* those: in whatever order the boxes are saved, whatever their texts look *)
(* like and wherever another section is cut off.  The exception is a       *)
(* section that is written behind one cut off in its heading, or in a text *)
(* behind an '@': its heading is joined to that line and never found.      *)
(* Save_Combo_To_File, Load_Combo_From_File in both versions.              *)
FirstSaveWins ==
    \A tag \in loaded :
        first[tag][3] =>
            LET list == first[tag][1]
                k == first[tag][2]
            IN  /\ items[tag] = SubSeq(list, 1, Least(Len(list), COMBO_LIST_MAX))
                /\ k <= COMBO_LIST_MAX => sel[tag] = k
=============================================================================
