---------------------------- MODULE WidgetsProofs ---------------------------
(***************************************************************************)
(* Theorems about the clipboard for any texts, paths, size of the history  *)
(* and number of copies under way: the types, that text area, select and   *)
(* history show the same entry, and that the ring of slots is a list of    *)
(* the entries added last. And about the form for random instances: a      *)
(* request that the server can parse finds numbers it can draw from, for   *)
(* every range of the fields that FormAssumption allows and all texts a    *)
(* user types.                                                             *)
(***************************************************************************)
EXTENDS Clipboard, InstanceForm, FiniteSetTheorems, TLAPS

-----------------------------------------------------------------------------
(* The inductive invariant.                                                *)

Added == Cardinality(DOMAIN options)

\* The ring is filled slot by slot before it wraps, and something is selected
\* as soon as there is something to select.
RingInv ==
    /\ Added \in 0 .. HistorySize /\ DOMAIN options = 1 .. Added
    /\ index \in 0 .. Added /\ selected \in 0 .. Added
    /\ Added > 0 => index > 0 /\ selected > 0
    /\ Added < HistorySize => index = Added

\* A copy under way has a path, and a text once the server has answered.
CopiesInv == BagToSet(copies) \subseteq [path : DataPaths, text : Texts \cup {NoText}]

\* ShownIsSelected, also for slot 0, which a text can be typed into, and
\* duplicated from, before anything was copied.
ShownInv ==
    /\ \A i \in DOMAIN options : options[i] = history[i].path
    /\ ~typed /\ history[selected].text # NoText => clipboard = history[selected].text

ClipInv == ClipTypeOK /\ RingInv /\ CopiesInv
-----------------------------------------------------------------------------
(* Types.                                                                  *)

LEMMA NextSlotInRange ==
    ASSUME RingInv
    PROVE  /\ NextSlot \in Slots
           /\ Added < HistorySize => NextSlot = Added + 1
           /\ Added = HistorySize => NextSlot \in 1 .. Added
<1>1. index \in Nat /\ HistorySize \in Nat \ {0} /\ Added \in Nat /\ index <= Added
  BY HistoryAssumption DEF RingInv, HistoryAssumption
<1>2. Added <= HistorySize /\ (Added < HistorySize => index = Added)
  BY HistoryAssumption DEF RingInv, HistoryAssumption
<1>. HIDE DEF Added
<1>. QED BY <1>1, <1>2 DEF NextSlot, Slots

(* Adding an entry makes room for one more, or takes the oldest one's slot.*)
LEMMA AddKeepsRing ==
    ASSUME RingInv, NEW path, NEW text, clipboardAddToHistory(path, text)
    PROVE  /\ RingInv' /\ Added' = IF Added < HistorySize THEN Added + 1 ELSE HistorySize
           /\ selected' = index'
<1>1. /\ NextSlot \in Slots
      /\ Added < HistorySize => NextSlot = Added + 1
      /\ Added = HistorySize => NextSlot \in 1 .. Added
  BY NextSlotInRange
<1>2. Added \in 0 .. HistorySize /\ DOMAIN options = 1 .. Added /\ HistorySize \in Nat \ {0}
  BY HistoryAssumption DEF RingInv, HistoryAssumption
<1>. DEFINE More == IF Added < HistorySize THEN Added + 1 ELSE HistorySize
<1>3. More \in 1 .. HistorySize
  <2>. HIDE DEF Added
  <2>. QED BY <1>2
<1>4. DOMAIN options' = 1 .. More
  <2>1. DOMAIN options' = DOMAIN options \cup {NextSlot}
    BY DEF clipboardAddToHistory
  <2>2. (1 .. Added) \cup {NextSlot} = 1 .. More
    <3>. HIDE DEF Added, NextSlot
    <3>. QED BY <1>1, <1>2
  <2>. QED BY <1>2, <2>1, <2>2
<1>5. Added' = More
  <2>1. Cardinality(1 .. More) = More
    <3>. HIDE DEF More
    <3>. QED BY <1>3, FS_Interval
  <2>. QED BY <1>4, <2>1 DEF Added
<1>6. index' = NextSlot /\ selected' = NextSlot
  BY DEF clipboardAddToHistory
<1>7. NextSlot \in 1 .. More /\ (More < HistorySize => NextSlot = More)
  <2>. HIDE DEF Added, NextSlot
  <2>. QED BY <1>1, <1>2 DEF Slots
<1>8. RingInv'
  <2>. HIDE DEF More, Added, NextSlot
  <2>. QED BY <1>3, <1>4, <1>5, <1>6, <1>7 DEF RingInv
<1>. QED BY <1>5, <1>6, <1>8

LEMMA AddKeepsTypes ==
    ASSUME ClipTypeOK, RingInv, NEW path \in DataPaths \cup {NoPath},
           NEW text \in Texts \cup {NoText}, clipboardAddToHistory(path, text)
    PROVE  /\ history' \in [0 .. HistorySize -> Entry] /\ index' \in 0 .. HistorySize
           /\ DOMAIN options' = 1 .. Cardinality(DOMAIN options')
           /\ selected' \in DOMAIN options' \cup {0}
           /\ RingInv'
<1>1. RingInv' /\ Added' = Cardinality(DOMAIN options') /\ selected' = index'
  BY AddKeepsRing DEF Added
<1>2. NextSlot \in Slots
  BY NextSlotInRange
<1>3. history' \in [0 .. HistorySize -> Entry]
  <2>1. [path |-> path, text |-> text] \in Entry
    BY DEF Entry
  <2>. QED BY <1>2, <2>1 DEF clipboardAddToHistory, ClipTypeOK, Slots
<1>4. index' \in 0 .. HistorySize
  BY <1>2, HistoryAssumption DEF clipboardAddToHistory, Slots, HistoryAssumption
<1>5. DOMAIN options' = 1 .. Added' /\ selected' \in (1 .. Added') \cup {0}
  BY <1>1 DEF RingInv, clipboardAddToHistory
<1>. QED BY <1>1, <1>3, <1>4, <1>5

LEMMA ClipTypeInit == ClipInit => ClipInv
<1>. SUFFICES ASSUME ClipInit PROVE ClipInv
  OBVIOUS
<1>1. DOMAIN options = {} /\ 1 .. 0 = {}
  BY DEF ClipInit
<1>2. Added = 0
  BY <1>1, FS_EmptySet DEF Added
<1>3. RingInv
  <2>1. 0 \in 0 .. HistorySize
    BY HistoryAssumption DEF HistoryAssumption
  <2>. HIDE DEF Added
  <2>. QED BY <1>1, <1>2, <2>1 DEF ClipInit, RingInv
<1>4. history \in [0 .. HistorySize -> Entry]
  BY DEF ClipInit, Entry
<1>5. ClipTypeOK
  BY <1>1, <1>2, <1>4, HistoryAssumption DEF ClipInit, ClipTypeOK, Added, HistoryAssumption
<1>6. CopiesInv
  BY DEF ClipInit, CopiesInv, BagToSet, EmptyBag, SetToBag
<1>. QED BY <1>3, <1>5, <1>6 DEF ClipInv

(* What a bag holds after something was taken out of it or put into it.    *)
LEMMA BagMembers ==
    ASSUME NEW B, NEW c, NEW d
    PROVE  /\ BagToSet(B (+) SetToBag({c})) = BagToSet(B) \cup {c}
           /\ BagToSet(B (-) SetToBag({c})) \subseteq BagToSet(B)
           /\ BagToSet(B (-) SetToBag({c}) (+) SetToBag({d})) \subseteq BagToSet(B) \cup {d}
<1>. DEFINE X == SetToBag({c})
            Y == SetToBag({d})
<1>1. DOMAIN X = {c} /\ DOMAIN Y = {d}
  BY DEF SetToBag
<1>. HIDE DEF X, Y
<1>2. DOMAIN (B (-) X) \subseteq DOMAIN B
  BY DEF (-)
<1>3. DOMAIN (B (+) X) = DOMAIN B \cup DOMAIN X
  BY DEF (+)
<1>4. DOMAIN ((B (-) X) (+) Y) = DOMAIN (B (-) X) \cup DOMAIN Y
  BY DEF (+)
<1>. QED BY <1>1, <1>2, <1>3, <1>4 DEF BagToSet, X, Y

LEMMA ClipTypeStep == ClipInv /\ [ClipNext]_clipVars => ClipInv'
<1>. SUFFICES ASSUME ClipInv, [ClipNext]_clipVars PROVE ClipInv'
  OBVIOUS
<1>. USE DEF ClipInv
<1>1. ASSUME NEW path \in DataPaths, copyButtonHandler(path) PROVE ClipInv'
  <2>1. [path |-> path, text |-> NoText] \in [path : DataPaths, text : Texts \cup {NoText}]
    OBVIOUS
  <2>2. CopiesInv'
    <3>. DEFINE new == [path |-> path, text |-> NoText]
    <3>1. BagToSet(copies') = BagToSet(copies) \cup {new}
      BY <1>1, BagMembers DEF copyButtonHandler
    <3>. QED BY <2>1, <3>1 DEF CopiesInv
  <2>. QED BY <1>1, <2>2 DEF copyButtonHandler, ClipTypeOK, RingInv, Added
<1>2. ASSUME NEW c \in BagToSet(copies), CopyServed(c) PROVE ClipInv'
  <2>1. PICK text \in Texts : copies' = copies (-) SetToBag({c}) (+) SetToBag({[c EXCEPT !.text = text]})
    BY <1>2 DEF CopyServed
  <2>2. [c EXCEPT !.text = text] \in [path : DataPaths, text : Texts \cup {NoText}]
    BY DEF CopiesInv
  <2>3. CopiesInv'
    <3>. DEFINE new == [c EXCEPT !.text = text]
    <3>1. BagToSet(copies') \subseteq BagToSet(copies) \cup {new}
      <4>. HIDE DEF new
      <4>1. copies' = copies (-) SetToBag({c}) (+) SetToBag({new})
        BY <2>1 DEF new
      <4>. QED BY <4>1, BagMembers
    <3>. QED BY <2>2, <3>1 DEF CopiesInv
  <2>. QED BY <1>2, <2>3 DEF CopyServed, ClipTypeOK, RingInv, Added
<1>3. ASSUME NEW c \in BagToSet(copies), Copied(c) PROVE ClipInv'
  <2>1. c \in [path : DataPaths, text : Texts \cup {NoText}] /\ c.text # NoText
    BY <1>3 DEF CopiesInv, Copied
  <2>2. c.path \in DataPaths \cup {NoPath} /\ c.text \in Texts
    BY <2>1
  <2>3. CopiesInv'
    BY <1>3, BagMembers DEF CopiesInv, Copied
  <2>4. clipboardAddToHistory(c.path, c.text) /\ clipboard' = c.text /\ typed' = FALSE
    BY <1>3 DEF Copied
  <2>5. ClipTypeOK' /\ RingInv'
    BY <2>2, <2>4, AddKeepsTypes DEF ClipTypeOK
  <2>. QED BY <2>3, <2>5
<1>4. ASSUME clipboardDuplicateButtonHandler PROVE ClipInv'
  <2>1. history[selected] \in Entry
    BY HistoryAssumption DEF HistoryAssumption, ClipTypeOK, RingInv
  <2>2. history[selected].path \in DataPaths \cup {NoPath} /\ history[selected].text \in Texts \cup {NoText}
    BY <2>1 DEF Entry
  <2>3. /\ clipboardAddToHistory(history[selected].path, history[selected].text)
        /\ UNCHANGED <<clipboard, typed, copies>>
    BY <1>4 DEF clipboardDuplicateButtonHandler
  <2>4. ClipTypeOK' /\ RingInv'
    BY <2>2, <2>3, AddKeepsTypes DEF ClipTypeOK
  <2>. QED BY <2>3, <2>4 DEF CopiesInv
<1>5. ASSUME NEW i \in Slots, clipboardHistorySelectChangeHandler(i) PROVE ClipInv'
  <2>1. history[i] \in Entry /\ i \in DOMAIN options
    BY <1>5 DEF ClipTypeOK, Slots, clipboardHistorySelectChangeHandler
  <2>2. clipboard' \in Texts
    BY <1>5, <2>1, HistoryAssumption
    DEF HistoryAssumption, Entry, clipboardHistorySelectChangeHandler
  <2>3. i \in 1 .. Added
    BY <2>1 DEF RingInv
  <2>4. UNCHANGED <<history, index, options, copies>> /\ selected' = i /\ typed' = FALSE
    BY <1>5 DEF clipboardHistorySelectChangeHandler
  <2>5. RingInv'
    BY <2>3, <2>4 DEF RingInv, Added
  <2>. QED BY <2>1, <2>2, <2>4, <2>5 DEF ClipTypeOK, CopiesInv
<1>6. ASSUME NEW text \in Texts, TypeText(text) PROVE ClipInv'
  BY <1>6 DEF TypeText, ClipTypeOK, RingInv, CopiesInv, Added
<1>7. ASSUME clipboardOnKeyUp PROVE ClipInv'
  <2>1. history' \in [0 .. HistorySize -> Entry]
    <3>1. selected \in 0 .. HistorySize /\ history[selected] \in Entry
      BY HistoryAssumption DEF HistoryAssumption, ClipTypeOK, RingInv
    <3>2. [history[selected] EXCEPT !.text = clipboard] \in Entry
      BY <3>1 DEF ClipTypeOK, Entry
    <3>. QED BY <1>7, <3>1, <3>2 DEF clipboardOnKeyUp, ClipTypeOK
  <2>. QED BY <1>7, <2>1 DEF clipboardOnKeyUp, ClipTypeOK, RingInv, CopiesInv, Added
<1>8. CASE UNCHANGED clipVars
  BY <1>8 DEF clipVars, ClipTypeOK, RingInv, CopiesInv, Added
<1>. QED BY <1>1, <1>2, <1>3, <1>4, <1>5, <1>6, <1>7, <1>8 DEF ClipNext

(* The types of the clipboard, and that its select is never at a slot it   *)
(* does not offer, in whatever order copies are answered.                  *)
THEOREM ClipTypes == ClipSpec => []ClipTypeOK
<1>1. ClipInv => ClipTypeOK
  BY DEF ClipInv
<1>. QED BY <1>1, ClipTypeInit, ClipTypeStep, PTL DEF ClipSpec
-----------------------------------------------------------------------------
(* What is shown.                                                          *)

LEMMA ShownStep == ClipInv /\ ShownInv /\ [ClipNext]_clipVars => ShownInv'
<1>. SUFFICES ASSUME ClipInv, ShownInv, [ClipNext]_clipVars PROVE ShownInv'
  OBVIOUS
<1>1. history \in [0 .. HistorySize -> Entry] /\ Slots \subseteq 0 .. HistorySize
  BY HistoryAssumption DEF ClipInv, ClipTypeOK, Slots, HistoryAssumption
<1>2. ASSUME NEW path, NEW text, clipboardAddToHistory(path, text),
             ~typed' /\ text # NoText => clipboard' = text
      PROVE  ShownInv'
  <2>1. NextSlot \in Slots
    BY NextSlotInRange DEF ClipInv
  <2>2. /\ \A i \in DOMAIN history : history'[i] = IF i = NextSlot THEN [path |-> path, text |-> text]
                                                   ELSE history[i]
        /\ history'[NextSlot].path = path /\ history'[NextSlot].text = text
    BY <1>1, <1>2, <2>1 DEF clipboardAddToHistory
  <2>3. /\ DOMAIN options' = DOMAIN options \cup {NextSlot}
        /\ \A i \in DOMAIN options' : options'[i] = IF i = NextSlot THEN path ELSE options[i]
        /\ selected' = NextSlot
    BY <1>2 DEF clipboardAddToHistory
  <2>4. DOMAIN options \subseteq DOMAIN history
    BY <1>1, HistoryAssumption DEF ClipInv, RingInv, HistoryAssumption
  <2>5. \A i \in DOMAIN options' : options'[i] = history'[i].path
    BY <2>2, <2>3, <2>4 DEF ShownInv
  <2>. QED BY <1>2, <2>2, <2>3, <2>5 DEF ShownInv
<1>3. ASSUME NEW c \in BagToSet(copies), Copied(c) PROVE ShownInv'
  BY <1>2, <1>3 DEF Copied
<1>4. ASSUME clipboardDuplicateButtonHandler PROVE ShownInv'
  BY <1>2, <1>4 DEF clipboardDuplicateButtonHandler, ShownInv
<1>5. ASSUME NEW i \in Slots, clipboardHistorySelectChangeHandler(i) PROVE ShownInv'
  BY <1>5 DEF clipboardHistorySelectChangeHandler, ShownInv
<1>6. ASSUME NEW text \in Texts, TypeText(text) PROVE ShownInv'
  BY <1>6 DEF TypeText, ShownInv
<1>7. ASSUME clipboardOnKeyUp PROVE ShownInv'
  <2>1. selected \in 0 .. HistorySize
    BY HistoryAssumption DEF ClipInv, RingInv, HistoryAssumption
  <2>2. \A i \in 0 .. HistorySize : history[i] \in Entry
    BY <1>1
  <2>3. /\ \A i \in 0 .. HistorySize : history'[i].path = history[i].path
        /\ history'[selected].text = clipboard
    BY <1>1, <1>7, <2>1, <2>2 DEF clipboardOnKeyUp, Entry
  <2>4. DOMAIN options \subseteq 0 .. HistorySize
    BY HistoryAssumption DEF ClipInv, RingInv, HistoryAssumption
  <2>. QED BY <1>7, <2>3, <2>4 DEF clipboardOnKeyUp, ShownInv
<1>8. ASSUME NEW path \in DataPaths, copyButtonHandler(path) PROVE ShownInv'
  BY <1>8 DEF copyButtonHandler, ShownInv
<1>9. ASSUME NEW c \in BagToSet(copies), CopyServed(c) PROVE ShownInv'
  BY <1>9 DEF CopyServed, ShownInv
<1>10. CASE UNCHANGED clipVars
  BY <1>10 DEF clipVars, ShownInv
<1>. QED BY <1>3, <1>4, <1>5, <1>6, <1>7, <1>8, <1>9, <1>10 DEF ClipNext

(* Text area, select and history agree whenever no key is down, in         *)
(* whatever order copies are answered, slots selected and texts typed.     *)
THEOREM ShownTogether == ClipSpec => []ShownIsSelected
<1>1. ClipInit => ShownInv
  BY HistoryAssumption DEF ClipInit, ShownInv, HistoryAssumption
<1>2. ShownInv => ShownIsSelected
  BY DEF ShownInv, ShownIsSelected
<1>. QED BY <1>1, <1>2, ClipTypeInit, ClipTypeStep, ShownStep, PTL DEF ClipSpec
-----------------------------------------------------------------------------
(* The ring of slots is a list of the entries added last.                  *)

\* Counting back from the slot filled last goes through all filled slots.
LEMMA SlotsInOrder ==
    ASSUME RingInv
    PROVE  /\ \A k \in 1 .. Added : SlotOf(k) \in 1 .. Added
           /\ \A k, l \in 1 .. Added : SlotOf(k) = SlotOf(l) => k = l
           /\ \A s \in 1 .. Added : \E k \in 1 .. Added : SlotOf(k) = s
<1>1. /\ index \in Nat /\ HistorySize \in Nat \ {0} /\ Added \in Nat
      /\ index <= Added /\ Added <= HistorySize
      /\ Added < HistorySize => index = Added
  BY HistoryAssumption DEF RingInv, HistoryAssumption
<1>. HIDE DEF Added
<1>2. \A k \in 1 .. Added : SlotOf(k) \in 1 .. Added
  BY <1>1 DEF SlotOf
<1>3. \A k, l \in 1 .. Added : SlotOf(k) = SlotOf(l) => k = l
  BY <1>1 DEF SlotOf
<1>4. ASSUME NEW s \in 1 .. Added PROVE \E k \in 1 .. Added : SlotOf(k) = s
  <2>. DEFINE k == IF s <= index THEN index - s + 1 ELSE index - s + 1 + HistorySize
  <2>1. k \in 1 .. Added
    BY <1>1
  <2>2. SlotOf(k) = s
    BY <1>1 DEF SlotOf
  <2>. QED BY <2>1, <2>2
<1>. QED BY <1>2, <1>3, <1>4

\* After an addition the same slots are counted one place further back.
LEMMA SlotsMoveBack ==
    ASSUME RingInv, NEW path, NEW text, clipboardAddToHistory(path, text)
    PROVE  /\ SlotOf(1)' = NextSlot
           /\ \A k \in 2 .. Added' : /\ k - 1 \in 1 .. Added
                                     /\ SlotOf(k)' = SlotOf(k - 1)
                                     /\ SlotOf(k - 1) # NextSlot
<1>1. /\ index \in Nat /\ HistorySize \in Nat \ {0} /\ Added \in Nat
      /\ index <= Added /\ Added <= HistorySize
      /\ Added < HistorySize => index = Added
  BY HistoryAssumption DEF RingInv, HistoryAssumption
<1>2. Added' = IF Added < HistorySize THEN Added + 1 ELSE HistorySize
  BY AddKeepsRing
<1>3. index' = NextSlot
  BY DEF clipboardAddToHistory
<1>. HIDE DEF Added
<1>4. NextSlot \in 1 .. HistorySize
  BY <1>1 DEF NextSlot
<1>5. SlotOf(1)' = NextSlot
  BY <1>3, <1>4 DEF SlotOf
<1>6. ASSUME NEW k \in 2 .. Added'
      PROVE  k - 1 \in 1 .. Added /\ SlotOf(k)' = SlotOf(k - 1) /\ SlotOf(k - 1) # NextSlot
  BY <1>1, <1>2, <1>3 DEF SlotOf, NextSlot
<1>. QED BY <1>5, <1>6

LEMMA AddIsAdd ==
    ASSUME ClipInv, ClipInv', NEW path \in DataPaths \cup {NoPath}, NEW text \in Texts \cup {NoText},
           clipboardAddToHistory(path, text)
    PROVE  Recent!Add([path |-> path, text |-> text])
<1>. DEFINE e == [path |-> path, text |-> text]
            R == [k \in 1 .. Added |-> history[SlotOf(k)]]
            S == [k \in 1 .. Added' |-> history'[SlotOf(k)']]
            more == <<e>> \o R
            Size == IF Len(more) < HistorySize THEN Len(more) ELSE HistorySize
<1>1. /\ Added \in Nat /\ Added <= HistorySize /\ HistorySize \in Nat \ {0}
      /\ Added' = IF Added < HistorySize THEN Added + 1 ELSE HistorySize
  BY AddKeepsRing, HistoryAssumption DEF ClipInv, RingInv, HistoryAssumption
<1>2. /\ \A k \in 1 .. Added : SlotOf(k) \in 1 .. Added
      /\ \A k \in 1 .. Added : history[SlotOf(k)] \in Entry
  <2>1. \A k \in 1 .. Added : SlotOf(k) \in 1 .. Added
    BY SlotsInOrder DEF ClipInv
  <2>2. \A s \in 1 .. Added : s \in 0 .. HistorySize
    <3>. HIDE DEF Added
    <3>. QED BY <1>1
  <2>3. \A s \in 0 .. HistorySize : history[s] \in Entry
    BY DEF ClipInv, ClipTypeOK
  <2>. QED BY <2>1, <2>2, <2>3
<1>3. R \in Seq(Entry) /\ Len(R) = Added /\ e \in Entry
  <2>1. e \in Entry
    BY DEF Entry
  <2>2. R \in [1 .. Added -> Entry]
    BY <1>2
  <2>. HIDE DEF R, Added
  <2>. QED BY <1>1, <2>1, <2>2
<1>4. /\ more \in Seq(Entry) /\ Len(more) = Added + 1
      /\ more[1] = e /\ \A k \in 2 .. Added + 1 : more[k] = R[k - 1]
  <2>. HIDE DEF e, R, Added
  <2>. QED BY <1>1, <1>3
<1>5. Size = Added'
  <2>. HIDE DEF more, Added
  <2>. QED BY <1>1, <1>4
<1>6. SubSeq(more, 1, Added') = [k \in 1 .. Added' |-> more[k]]
  <2>1. Added' \in Nat /\ Added' <= Added + 1
    <3>. HIDE DEF Added
    <3>. QED BY <1>1
  <2>. HIDE DEF more, Added
  <2>. QED BY <1>1, <1>4, <2>1
<1>7. ASSUME NEW k \in 1 .. Added' PROVE S[k] = more[k]
  <2>1. k = 1 \/ k \in 2 .. Added'
    <3>. HIDE DEF Added
    <3>. QED BY <1>1
  <2>2. NextSlot \in 0 .. HistorySize /\ history'[NextSlot] = e
    <3>1. NextSlot \in 0 .. HistorySize
      BY NextSlotInRange DEF ClipInv, Slots
    <3>. QED BY <3>1 DEF clipboardAddToHistory, ClipInv, ClipTypeOK
  <2>3. CASE k = 1
    BY <1>4, <2>2, <2>3, SlotsMoveBack DEF ClipInv
  <2>4. CASE k \in 2 .. Added'
    <3>1. /\ k - 1 \in 1 .. Added /\ SlotOf(k)' = SlotOf(k - 1) /\ SlotOf(k - 1) # NextSlot
      BY <2>4, SlotsMoveBack DEF ClipInv
    <3>2. history'[SlotOf(k - 1)] = history[SlotOf(k - 1)]
      BY <3>1, <1>2, <1>1 DEF clipboardAddToHistory, ClipInv, ClipTypeOK
    <3>3. k \in 2 .. Added + 1
      <4>. HIDE DEF Added
      <4>. QED BY <1>1, <2>4
    <3>. QED BY <1>4, <3>1, <3>2, <3>3
  <2>. QED BY <2>1, <2>3, <2>4
<1>8. S = SubSeq(more, 1, Size)
  <2>1. S = [k \in 1 .. Added' |-> more[k]]
    <3>. HIDE DEF more
    <3>. QED BY <1>7
  <2>. HIDE DEF S, more, Size, Added
  <2>. QED BY <1>5, <1>6, <2>1
<1>. QED BY <1>8 DEF Recent!Add, Recent!Keep, Added
LEMMA RefinementStep ==
    ClipInv /\ ClipInv' /\ [ClipNext]_clipVars
      => [Recent!RecentNext]_([k \in 1 .. Cardinality(DOMAIN options) |-> history[SlotOf(k)]])
<1>. DEFINE R == [k \in 1 .. Cardinality(DOMAIN options) |-> history[SlotOf(k)]]
<1>. SUFFICES ASSUME ClipInv, ClipInv', [ClipNext]_clipVars
              PROVE  Recent!RecentNext \/ R' = R
  OBVIOUS
<1>1. ASSUME NEW path \in DataPaths \cup {NoPath}, NEW text \in Texts \cup {NoText},
             clipboardAddToHistory(path, text)
      PROVE  Recent!RecentNext
  <2>1. [path |-> path, text |-> text] \in Entry
    BY DEF Entry
  <2>. QED BY <1>1, <2>1, AddIsAdd DEF Recent!RecentNext
<1>2. ASSUME UNCHANGED <<history, index, options>> PROVE R' = R
  BY <1>2 DEF SlotOf
<1>3. ASSUME NEW c \in BagToSet(copies), Copied(c) PROVE Recent!RecentNext
  <2>1. c \in [path : DataPaths, text : Texts \cup {NoText}]
    BY DEF ClipInv, CopiesInv
  <2>. QED BY <1>1, <1>3, <2>1 DEF Copied
<1>4. ASSUME clipboardDuplicateButtonHandler PROVE Recent!RecentNext
  <2>1. history[selected] \in Entry
    BY HistoryAssumption DEF ClipInv, ClipTypeOK, RingInv, HistoryAssumption
  <2>2. history[selected].path \in DataPaths \cup {NoPath} /\ history[selected].text \in Texts \cup {NoText}
    BY <2>1 DEF Entry
  <2>. QED BY <1>1, <1>4, <2>2 DEF clipboardDuplicateButtonHandler
<1>5. ASSUME clipboardOnKeyUp PROVE Recent!RecentNext \/ R' = R
  <2>. DEFINE e == [history[selected] EXCEPT !.text = clipboard]
  <2>1. /\ Added \in Nat /\ Added <= HistorySize /\ HistorySize \in Nat /\ selected \in 0 .. Added
        /\ history \in [0 .. HistorySize -> Entry] /\ clipboard \in Texts
    BY HistoryAssumption DEF ClipInv, ClipTypeOK, RingInv, HistoryAssumption
  <2>2. selected \in 0 .. HistorySize /\ 1 .. Added \subseteq 0 .. HistorySize
    BY <2>1
  <2>3. /\ history' = [history EXCEPT ![selected] = e] /\ UNCHANGED <<index, options>>
    BY <1>5, <2>1, <2>2 DEF clipboardOnKeyUp
  <2>4. e \in Entry /\ e.path = history[selected].path
    BY <2>1, <2>2 DEF Entry
  <2>5. \A k \in 1 .. Added : SlotOf(k)' = SlotOf(k) /\ SlotOf(k) \in 1 .. Added
    <3>1. \A k \in 1 .. Added : SlotOf(k) \in 1 .. Added
      BY SlotsInOrder DEF ClipInv
    <3>. QED BY <2>3, <3>1 DEF SlotOf
  <2>6. R = [k \in 1 .. Added |-> history[SlotOf(k)]] /\ R' = [k \in 1 .. Added |-> history'[SlotOf(k)]]
    BY <2>3, <2>5 DEF Added
  <2>7. CASE selected = 0
    <3>1. \A k \in 1 .. Added : history'[SlotOf(k)] = history[SlotOf(k)]
      <4>. HIDE DEF e, Added
      <4>. QED BY <2>1, <2>2, <2>3, <2>5, <2>7
    <3>. QED BY <2>6, <3>1
  <2>8. CASE selected # 0
    <3>1. selected \in 1 .. Added
      BY <2>1, <2>8
    <3>2. PICK k \in 1 .. Added : SlotOf(k) = selected
      BY <3>1, SlotsInOrder DEF ClipInv
    <3>3. \A j \in 1 .. Added : history'[SlotOf(j)] = IF j = k THEN e ELSE history[SlotOf(j)]
      <4>1. \A j \in 1 .. Added : SlotOf(j) = SlotOf(k) => j = k
        BY SlotsInOrder DEF ClipInv
      <4>2. \A j \in 1 .. Added : SlotOf(j) \in DOMAIN history
        BY <2>1, <2>2, <2>5
      <4>. HIDE DEF e, Added
      <4>. QED BY <2>3, <3>2, <4>1, <4>2
    <3>4. R' = [R EXCEPT ![k] = e]
      <4>. HIDE DEF e, Added
      <4>. QED BY <2>6, <3>3
    <3>5. k \in DOMAIN R /\ e.path = R[k].path /\ k \in 1 .. HistorySize
      <4>1. R[k] = history[selected]
        BY <2>6, <3>2
      <4>2. k \in 1 .. HistorySize
        <5>. HIDE DEF Added
        <5>. QED BY <2>1
      <4>3. DOMAIN R = 1 .. Added
        BY <2>6
      <4>. HIDE DEF R, e, Added
      <4>. QED BY <2>4, <4>1, <4>2, <4>3
    <3>6. Recent!Edit(k, e)
      <4>. HIDE DEF e
      <4>. QED BY <3>4, <3>5 DEF Recent!Edit
    <3>. QED BY <2>4, <3>5, <3>6 DEF Recent!RecentNext
  <2>. QED BY <2>7, <2>8
<1>6. CASE UNCHANGED clipVars
  BY <1>2, <1>6 DEF clipVars
<1>7. ASSUME NEW i \in Slots, clipboardHistorySelectChangeHandler(i) PROVE R' = R
  BY <1>2, <1>7 DEF clipboardHistorySelectChangeHandler
<1>8. ASSUME NEW text \in Texts, TypeText(text) PROVE R' = R
  BY <1>2, <1>8 DEF TypeText
<1>9. ASSUME NEW path \in DataPaths, copyButtonHandler(path) PROVE R' = R
  BY <1>2, <1>9 DEF copyButtonHandler
<1>10. ASSUME NEW c \in BagToSet(copies), CopyServed(c) PROVE R' = R
  BY <1>2, <1>10 DEF CopyServed
<1>. HIDE DEF R
<1>. QED BY <1>3, <1>4, <1>5, <1>6, <1>7, <1>8, <1>9, <1>10 DEF ClipNext

(* The history keeps the HistorySize entries added last, each with its     *)
(* edits, in an array whose slots are used round and round.                *)
THEOREM HistoryRefinement == ClipSpec => KeepsRecentTexts
<1>1. ClipInit => Recent!RecentInit
  <2>. SUFFICES ASSUME ClipInit PROVE Recent!RecentInit
    OBVIOUS
  <2>1. Cardinality(DOMAIN options) = 0 /\ 1 .. 0 = {}
    BY FS_EmptySet DEF ClipInit
  <2>. QED BY <2>1 DEF Recent!RecentInit
<1>2. ClipInv /\ ClipInv' /\ [ClipNext]_clipVars
        => [Recent!RecentNext]_([k \in 1 .. Cardinality(DOMAIN options) |-> history[SlotOf(k)]])
  BY RefinementStep
<1>. QED
  BY <1>1, <1>2, ClipTypeInit, ClipTypeStep, PTL
  DEF ClipSpec, KeepsRecentTexts, Recent!RecentSpec
-----------------------------------------------------------------------------
(* The form.                                                               *)

(* MembersCanBeDrawn speaks of the last answer; what makes it true is that *)
(* the number read in the field for the minimum is below the one in the    *)
(* field for the maximum, whenever both read a number, and is never        *)
(* negative. The handlers compare one number with one number, so the       *)
(* invariant says too that a text reads at most one, and that the server   *)
(* takes a text only if it reads one.                                      *)

\* A text of a field: it reads no number, or one in the field's range.
Holds(v, low, high) ==
    /\ v.reads = {} \/ \E n \in low .. high : v.reads = {n}
    /\ v.plain \in BOOLEAN /\ (v.plain => v.reads # {})

Apart == \A n \in minm.reads, m \in maxm.reads : n < m

FormInv ==
    /\ Holds(minm, MinLow, MinHigh)
    /\ Holds(maxm, MaxLow, MaxHigh)
    /\ Holds(limit, LimitLow, LimitHigh)
    /\ Apart
    /\ answer \in {"none", "refused", "created"}

\* A number in range, as the page writes it.
LEMMA PlainHolds ==
    ASSUME NEW low \in Int, NEW high \in Int, NEW n \in low .. high
    PROVE  Holds(Plain(n), low, high)
BY DEF Holds, Plain

\* What the range check leaves in a field reads a number in range, or none.
LEMMA RangedHolds ==
    ASSUME NEW v \in Typed, NEW low \in Int, NEW high \in Int, low <= high
    PROVE  Holds(Ranged(v, low, high), low, high)
<1>1. /\ v.reads = {} \/ \E n \in Int : v.reads = {n}
      /\ v.plain \in BOOLEAN /\ (v.plain => v.reads # {})
  <2>1. CASE v \in {Plain(n) : n \in TypedNumbers}
    <3>1. PICK n \in TypedNumbers : v = [reads |-> {n}, plain |-> TRUE]
      BY <2>1 DEF Plain
    <3>2. n \in Int
      BY FormAssumption DEF FormAssumption
    <3>. QED BY <3>1, <3>2
  <2>2. CASE v \in [reads : {{}} \cup {{n} : n \in TypedNumbers}, plain : {FALSE}]
    <3>1. v.reads \in {{}} \cup {{n} : n \in TypedNumbers} /\ v.plain = FALSE
      BY <2>2
    <3>2. TypedNumbers \subseteq Int
      BY FormAssumption DEF FormAssumption
    <3>. QED BY <3>1, <3>2
  <2>. QED BY <2>1, <2>2 DEF Typed
<1>2. CASE v.reads = {}
  BY <1>1, <1>2 DEF Ranged, Holds
<1>3. CASE v.reads # {}
  <2>1. PICK k \in Int : v.reads = {k}
    BY <1>1, <1>3
  <2>2. CASE k < low
    <3>1. Ranged(v, low, high) = Plain(low)
      BY <2>1, <2>2 DEF Ranged
    <3>. QED BY <3>1, PlainHolds
  <2>3. CASE k > high
    <3>1. Ranged(v, low, high) = Plain(high)
      BY <2>1, <2>3 DEF Ranged
    <3>. QED BY <3>1, PlainHolds
  <2>4. CASE k \in low .. high
    <3>1. Ranged(v, low, high) = v
      BY <2>1, <2>4 DEF Ranged
    <3>. QED BY <1>1, <2>1, <2>4, <3>1 DEF Holds
  <2>. QED BY <2>2, <2>3, <2>4
<1>. QED BY <1>2, <1>3

\* A minimum that is not below the maximum pushes it up by one more than itself.
LEMMA MinInputKeeps ==
    ASSUME FormInv, NEW v \in Typed, createInstanceMemberMinInputHandler(v)
    PROVE  FormInv'
<1>. USE FormAssumption DEF FormAssumption
<1>1. minm' = Ranged(v, MinLow, MinHigh) /\ limit' = limit /\ answer' = answer
  BY DEF createInstanceMemberMinInputHandler
<1>2. Holds(minm', MinLow, MinHigh)
  BY <1>1, RangedHolds
<1>3. Holds(limit, LimitLow, LimitHigh)' /\ (answer \in {"none", "refused", "created"})'
  BY <1>1 DEF FormInv, Holds
<1>4. Holds(maxm', MaxLow, MaxHigh) /\ Apart'
  <2>1. CASE NotBelow(minm', maxm)
    <3>1. PICK n \in MinLow .. MinHigh : minm'.reads = {n}
      BY <1>2, <2>1 DEF Holds, NotBelow
    <3>2. maxm' = Plain(n + 1)
      BY <1>1, <2>1, <3>1 DEF createInstanceMemberMinInputHandler
    <3>3. n + 1 \in MaxLow .. MaxHigh /\ n < n + 1
      OBVIOUS
    <3>4. Holds(maxm', MaxLow, MaxHigh)
      BY <3>2, <3>3, PlainHolds
    <3>5. Apart'
      BY <3>1, <3>2, <3>3 DEF Apart, Plain
    <3>. QED BY <3>4, <3>5
  <2>2. CASE ~NotBelow(minm', maxm)
    <3>1. maxm' = maxm
      BY <1>1, <2>2 DEF createInstanceMemberMinInputHandler
    <3>2. \A n \in minm'.reads, m \in maxm.reads : n \in Int /\ m \in Int
      BY <1>2 DEF FormInv, Holds
    <3>3. Apart'
      BY <2>2, <3>1, <3>2 DEF NotBelow, Apart
    <3>. QED BY <3>1, <3>3 DEF FormInv
  <2>. QED BY <2>1, <2>2
<1>. QED BY <1>2, <1>3, <1>4 DEF FormInv

\* A maximum that is not above the minimum pulls it down below itself.
LEMMA MaxInputKeeps ==
    ASSUME FormInv, NEW v \in Typed, createInstanceMemberMaxInputHandler(v)
    PROVE  FormInv'
<1>. USE FormAssumption DEF FormAssumption
<1>1. maxm' = Ranged(v, MaxLow, MaxHigh) /\ limit' = limit /\ answer' = answer
  BY DEF createInstanceMemberMaxInputHandler
<1>2. Holds(maxm', MaxLow, MaxHigh)
  BY <1>1, RangedHolds
<1>3. Holds(limit, LimitLow, LimitHigh)' /\ (answer \in {"none", "refused", "created"})'
  BY <1>1 DEF FormInv, Holds
<1>4. Holds(minm', MinLow, MinHigh) /\ Apart'
  <2>1. CASE NotBelow(minm, maxm')
    <3>1. PICK m \in MaxLow .. MaxHigh : maxm'.reads = {m}
      BY <1>2, <2>1 DEF Holds, NotBelow
    <3>2. PICK n \in MinLow .. MinHigh : minm.reads = {n} /\ n >= m
      BY <2>1, <3>1 DEF FormInv, Holds, NotBelow
    <3>3. minm' = Plain(m - 1)
      BY <1>1, <2>1, <3>1 DEF createInstanceMemberMaxInputHandler
    <3>4. m - 1 \in MinLow .. MinHigh /\ m - 1 < m
      BY <3>2
    <3>5. Holds(minm', MinLow, MinHigh)
      BY <3>3, <3>4, PlainHolds
    <3>6. Apart'
      BY <3>1, <3>3, <3>4 DEF Apart, Plain
    <3>. QED BY <3>5, <3>6
  <2>2. CASE ~NotBelow(minm, maxm')
    <3>1. minm' = minm
      BY <1>1, <2>2 DEF createInstanceMemberMaxInputHandler
    <3>2. \A n \in minm.reads, m \in maxm'.reads : n \in Int /\ m \in Int
      BY <1>2 DEF FormInv, Holds
    <3>3. Apart'
      BY <2>2, <3>1, <3>2 DEF NotBelow, Apart
    <3>. QED BY <3>1, <3>3 DEF FormInv
  <2>. QED BY <2>1, <2>2
<1>. QED BY <1>2, <1>3, <1>4 DEF FormInv

\* A request is refused, or finds a number of members to create.
LEMMA CreateKeeps ==
    ASSUME FormInv, NEW memb, NEW percentIsPlain, createInstance(memb, percentIsPlain)
    PROVE  FormInv'
<1>. USE FormAssumption DEF FormAssumption
<1>1. UNCHANGED <<minm, maxm, limit>>
  BY DEF createInstance, fields
<1>2. answer' \in {"none", "refused", "created"}
  <2>. DEFINE Drawn == UNION {Populated(n, m) : n \in minm.reads, m \in maxm.reads}
  <2>1. CASE answer' \in {"refused", "created"}
    BY <2>1
  <2>2. CASE answer' \in Drawn
    <3>1. PICK n \in minm.reads, m \in maxm.reads : answer' \in Populated(n, m)
      BY <2>2
    <3>2. n \in Nat /\ m \in Int /\ n < m
      BY DEF FormInv, Holds, Apart
    <3>3. ~(m - n <= 0) /\ \A i \in n .. m - 1 : ~(i < 0)
      BY <3>2
    <3>4. PICK i \in n .. m - 1 : answer' = IF i < 0 THEN "endless" ELSE "created"
      BY <3>1, <3>3 DEF Populated
    <3>. QED BY <3>3, <3>4
  <2>. HIDE DEF Drawn
  <2>3. answer' \in {"refused"} \/ answer' \in {"created"} \/ answer' \in Drawn
    BY DEF createInstance, Drawn
  <2>. QED BY <2>1, <2>2, <2>3
<1>. QED BY <1>1, <1>2 DEF FormInv, Holds, Apart

\* Whatever is typed and whenever it is sent: a request that gets past the
\* server's parsing never fails in its write session and never loops in it,
\* and every field stays in its range.
THEOREM FormCanBeDrawn == FormSpec => []MembersCanBeDrawn
<1>. USE FormAssumption DEF FormAssumption
<1>1. FormInit => FormInv
  BY PlainHolds DEF FormInit, FormInv, Apart, Plain
<1>2. FormInv /\ [FormNext]_formVars => FormInv'
  <2>. SUFFICES ASSUME FormInv, [FormNext]_formVars PROVE FormInv'
    OBVIOUS
  <2>1. ASSUME NEW v \in Typed, createInstanceMemberMinInputHandler(v) PROVE FormInv'
    BY <2>1, MinInputKeeps
  <2>2. ASSUME NEW v \in Typed, createInstanceMemberMaxInputHandler(v) PROVE FormInv'
    BY <2>2, MaxInputKeeps
  <2>3. ASSUME NEW v \in Typed, rangedNumericInputChangeHandler(v) PROVE FormInv'
    <3>1. Holds(limit', LimitLow, LimitHigh)
      BY <2>3, RangedHolds DEF rangedNumericInputChangeHandler
    <3>. QED BY <2>3, <3>1 DEF rangedNumericInputChangeHandler, FormInv, Apart
  <2>4. ASSUME NEW memb, NEW percentIsPlain, createInstance(memb, percentIsPlain) PROVE FormInv'
    BY <2>4, CreateKeeps
  <2>5. CASE UNCHANGED formVars
    BY <2>5 DEF formVars, FormInv, Apart
  <2>. QED BY <2>1, <2>2, <2>3, <2>4, <2>5 DEF FormNext
<1>3. FormInv => MembersCanBeDrawn
  BY DEF FormInv, Holds, MembersCanBeDrawn
<1>. QED BY <1>1, <1>2, <1>3, PTL DEF FormSpec
=============================================================================
