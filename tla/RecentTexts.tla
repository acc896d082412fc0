----------------------------- MODULE RecentTexts ----------------------------
(***************************************************************************)
(* What the history of the playground's clipboard promises: the Size       *)
(* entries added last, the newest first, each with the edits made to it.   *)
(***************************************************************************)
EXTENDS Naturals, Sequences

CONSTANTS Entries,  \* an entry: a path and the text that was copied from it
          Size      \* how many are kept

VARIABLE recent     \* the entries, the newest first

RecentInit == recent = <<>>

Keep(s) == SubSeq(s, 1, IF Len(s) < Size THEN Len(s) ELSE Size)

Add(e) == recent' = Keep(<<e>> \o recent)

\* An edit changes the text of one entry, and no other entry.
Edit(k, e) == /\ k \in DOMAIN recent /\ e.path = recent[k].path
              /\ recent' = [recent EXCEPT ![k] = e]

RecentNext == \E e \in Entries : Add(e) \/ \E k \in 1 .. Size : Edit(k, e)

RecentSpec == RecentInit /\ [][RecentNext]_recent
=============================================================================
