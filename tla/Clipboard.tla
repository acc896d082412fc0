----------------------------- MODULE Clipboard ------------------------------
(***************************************************************************)
(* The clipboard tab of the playground page: a text area, a history of     *)
(* what was cut or copied in a ring of slots, and a select to go back to   *)
(* a slot. Cut and copy ask the server for the text, and several of them   *)
(* can be under way while the user types, duplicates or selects.           *)
(*                                                                         *)
(* Slots are numbered from 1. Slot 0 stands for the array index "null",    *)
(* which the handlers use while the select has no option yet.              *)
(***************************************************************************)
EXTENDS Naturals, FiniteSets, Sequences, Bags

CONSTANTS
    Texts,        \* what can be in the text area
    DataPaths,    \* the paths that can be copied
    HistorySize,  \* clipboardHistorySize (10 in the code)
    MaxCopies     \* bound: cuts and copies under way

NoText == "undefined"
NoPath == "undefined"
Empty  == ""

ASSUME HistoryAssumption ==
    /\ HistorySize \in Nat \ {0} /\ MaxCopies \in Nat
    /\ Empty \in Texts /\ NoText \notin Texts /\ NoPath \notin DataPaths

Entry == [path : DataPaths \cup {NoPath}, text : Texts \cup {NoText}]

VARIABLES
    clipboard,  \* the text area
    history,    \* clipboardHistoryTexts and clipboardHistoryPaths
    index,      \* clipboardHistoryIndex, the slot filled last
    options,    \* the slots the select offers, with the path each shows
    selected,   \* the slot the select is at, 0 for none
    typed,      \* the text area was changed and no keyup was handled since
    copies      \* bag of cuts and copies under way: before and after the server

clipVars == <<clipboard, history, index, options, selected, typed, copies>>

Slots == 1 .. HistorySize

ClipInit ==
    /\ clipboard \in Texts
    /\ history = [i \in 0 .. HistorySize |-> [path |-> NoPath, text |-> NoText]]
    /\ index = 0 /\ options = <<>> /\ selected = 0 /\ typed = FALSE
    /\ copies = EmptyBag

\* NextSlot, had it not wrapped, and had it wrapped one slot too early.
NextSlotUnwrapped == index + 1
NextSlotEarly     == IF index + 1 >= HistorySize THEN 1 ELSE index + 1

\* The next slot of the ring takes the entry and becomes the selected one.
NextSlot == IF index + 1 > HistorySize THEN 1 ELSE index + 1

clipboardAddToHistory(path, text) ==
    /\ index' = NextSlot
    /\ history' = [history EXCEPT ![NextSlot] = [path |-> path, text |-> text]]
    /\ options' = [i \in DOMAIN options \cup {NextSlot} |->
                     IF i = NextSlot THEN path ELSE options[i]]
    /\ selected' = NextSlot

\* Copy and cut of the edit dialog send a GET of the data.
copyButtonHandler(path) ==
    /\ BagCardinality(copies) < MaxCopies
    /\ copies' = copies (+) SetToBag({[path |-> path, text |-> NoText]})
    /\ UNCHANGED <<clipboard, history, index, options, selected, typed>>

\* The server answers with the text of that moment.
CopyServed(c) ==
    /\ c.text = NoText
    /\ \E text \in Texts :
          copies' = copies (-) SetToBag({c}) (+) SetToBag({[c EXCEPT !.text = text]})
    /\ UNCHANGED <<clipboard, history, index, options, selected, typed>>

\* The answer replaces what is in the text area, typed or not.
Copied(c) ==
    /\ c.text # NoText
    /\ clipboard' = c.text
    /\ clipboardAddToHistory(c.path, c.text)
    /\ typed' = FALSE
    /\ copies' = copies (-) SetToBag({c})

clipboardDuplicateButtonHandler ==
    /\ clipboardAddToHistory(history[selected].path, history[selected].text)
    /\ UNCHANGED <<clipboard, typed, copies>>

clipboardHistorySelectChangeHandler(i) ==
    /\ i \in DOMAIN options \ {selected}
    /\ selected' = i
    /\ clipboard' = IF history[i].text = NoText THEN Empty ELSE history[i].text
    /\ typed' = FALSE
    /\ UNCHANGED <<history, index, options, copies>>

\* A key goes down and the text changes; the keyup handler runs later, and
\* other handlers can come in between.
TypeText(text) ==
    /\ clipboard' = text /\ typed' = TRUE
    /\ UNCHANGED <<history, index, options, selected, copies>>

\* clipboardOnKeyUp, had it stored the text in the slot filled last.
KeyUpAtIndex ==
    /\ typed
    /\ history' = [history EXCEPT ![index].text = clipboard]
    /\ typed' = FALSE
    /\ UNCHANGED <<clipboard, index, options, selected, copies>>

clipboardOnKeyUp ==
    /\ typed
    /\ history' = [history EXCEPT ![selected].text = clipboard]
    /\ typed' = FALSE
    /\ UNCHANGED <<clipboard, index, options, selected, copies>>

ClipNext ==
    \/ \E path \in DataPaths : copyButtonHandler(path)
    \/ \E c \in BagToSet(copies) : CopyServed(c) \/ Copied(c)
    \/ clipboardDuplicateButtonHandler
    \/ \E i \in Slots : clipboardHistorySelectChangeHandler(i)
    \/ \E text \in Texts : TypeText(text)
    \/ clipboardOnKeyUp

ClipSpec == ClipInit /\ [][ClipNext]_clipVars
-----------------------------------------------------------------------------
ClipTypeOK ==
    /\ clipboard \in Texts /\ history \in [0 .. HistorySize -> Entry]
    /\ index \in 0 .. HistorySize /\ DOMAIN options = 1 .. Cardinality(DOMAIN options)
    /\ selected \in DOMAIN options \cup {0} /\ typed \in BOOLEAN

\* In whatever order copies are answered, slots selected and texts typed: the
\* select shows the path, and the text area the text, of one entry, once the
\* keys are released. ("so it matches the text in the textarea", playground.js
\* 1109. Without an entry to duplicate there is no text to match.)
ShownIsSelected ==
    /\ \A i \in DOMAIN options : options[i] = history[i].path
    /\ selected # 0 /\ ~typed /\ history[selected].text # NoText =>
         clipboard = history[selected].text

\* The ring keeps the entries added last, each with its edits: wrapping, going
\* back to an old slot, duplicating it and editing it disturb no other entry.
SlotOf(k) == IF index >= k THEN index - k + 1 ELSE index - k + 1 + HistorySize
Recent == INSTANCE RecentTexts
    WITH Entries <- Entry, Size <- HistorySize,
         recent <- [k \in 1 .. Cardinality(DOMAIN options) |-> history[SlotOf(k)]]
KeepsRecentTexts == Recent!RecentSpec
=============================================================================
