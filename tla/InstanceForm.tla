---------------------------- MODULE InstanceForm ----------------------------
(***************************************************************************)
(* The numbers in the form that creates a random instance: how many members*)
(* a collection gets at least and at most, and a limit. When a field       *)
(* changes the page reads a number from its text, as much of it as it can, *)
(* and keeps the numbers in order; the text itself stays and is sent. The  *)
(* server refuses a text that is not a whole number, and draws from the    *)
(* numbers, inside a write session, with a function that fails when there  *)
(* is nothing to draw from and a loop that only ends from zero upwards.    *)
(***************************************************************************)
EXTENDS Integers

CONSTANTS
    MinLow, MinHigh,     \* attributes min and max of the field for the minimum
    MaxLow, MaxHigh,     \* ... of the field for the maximum
    LimitLow, LimitHigh, \* ... of the field for the depth (or the count)
    TypedNumbers         \* the numbers parseInt reads from what a user types

ASSUME FormAssumption ==
    /\ MinLow = 0 /\ MaxLow = 1 /\ {MinHigh, MaxHigh} \subseteq Nat
    /\ 1 <= MinHigh /\ 3 <= MaxHigh /\ MinHigh < MaxHigh
    /\ LimitLow \in Nat /\ LimitHigh \in Nat /\ LimitLow <= LimitHigh
    /\ TypedNumbers \subseteq Int

VARIABLES
    minm,   \* the text in the field for the minimum
    maxm,   \* the text in the field for the maximum
    limit,  \* the text in the field for the depth
    answer  \* what became of the last request the form sent

fields == <<minm, maxm, limit>>
formVars == <<minm, maxm, limit, answer>>

\* A text is what the page's parseInt reads from it, none for NaN, and whether
\* the server's Integer.parseInt takes it: "2" reads 2 and is plain, "2.5" and
\* "2e3" read 2, "" and ".5" read nothing. A number the page writes is plain.
Plain(n) == [reads |-> {n}, plain |-> TRUE]

Typed == {Plain(n) : n \in TypedNumbers}
            \cup [reads : {{}} \cup {{n} : n \in TypedNumbers}, plain : {FALSE}]

\* rangedNumericInputChangeHandlerHelper: a text that reads in range, or reads
\* nothing, is left as it is.
Ranged(v, low, high) ==
    IF \E n \in v.reads : n < low THEN Plain(low)
    ELSE IF \E n \in v.reads : n > high THEN Plain(high)
    ELSE v

\* min >= max, of what is read; false when one of them is NaN.
NotBelow(v, w) == \E n \in v.reads, m \in w.reads : n >= m

FormInit ==
    /\ minm = Plain(MinLow + 1)
    /\ maxm = Plain(MinLow + 3)
    /\ limit \in {Plain(n) : n \in LimitLow .. LimitHigh}
    /\ answer = "none"

\* createInstanceMemberMinInputHandler, had it made the numbers equal.
MinInputMakesEqual(v) ==
    LET text == Ranged(v, MinLow, MinHigh)
    IN /\ minm' = text
       /\ IF NotBelow(text, maxm) THEN \E n \in text.reads : maxm' = Plain(n) ELSE maxm' = maxm
       /\ UNCHANGED <<limit, answer>>

createInstanceMemberMinInputHandler(v) ==
    LET text == Ranged(v, MinLow, MinHigh)
    IN /\ minm' = text
       /\ IF NotBelow(text, maxm) THEN \E n \in text.reads : maxm' = Plain(n + 1) ELSE maxm' = maxm
       /\ UNCHANGED <<limit, answer>>

createInstanceMemberMaxInputHandler(v) ==
    LET text == Ranged(v, MaxLow, MaxHigh)
    IN /\ maxm' = text
       /\ IF NotBelow(minm, text) THEN \E n \in text.reads : minm' = Plain(n - 1) ELSE minm' = minm
       /\ UNCHANGED <<limit, answer>>

rangedNumericInputChangeHandler(v) ==
    limit' = Ranged(v, LimitLow, LimitHigh) /\ UNCHANGED <<minm, maxm, answer>>

\* populate() with random members: random.nextInt(max - min) + min of them,
\* counted down to exactly zero. nextInt throws when the difference is not
\* above zero; from below zero the count runs through all the integers.
Populated(min, max) ==
    IF max - min <= 0 THEN {"failed"}
    ELSE {IF i < 0 THEN "endless" ELSE "created" : i \in min .. max - 1}

\* The page sends the texts; the server parses all of them before it makes the
\* write session in which it populates. Nothing keeps the field for the
\* percentage of optional children in range or whole: it is any text.
createInstance(memb, percentIsPlain) ==
    /\ answer' \in
         IF ~(percentIsPlain /\ minm.plain /\ maxm.plain /\ limit.plain) THEN {"refused"}
         ELSE IF memb = "none" THEN {"created"}
         ELSE UNION {Populated(n, m) : n \in minm.reads, m \in maxm.reads}
    /\ UNCHANGED fields

FormNext ==
    \/ \E v \in Typed : \/ createInstanceMemberMinInputHandler(v)
                        \/ createInstanceMemberMaxInputHandler(v)
                        \/ rangedNumericInputChangeHandler(v)
    \/ \E memb \in {"none", "random"}, percentIsPlain \in BOOLEAN :
           createInstance(memb, percentIsPlain)

FormSpec == FormInit /\ [][FormNext]_formVars
-----------------------------------------------------------------------------
\* Whatever texts the fields are changed to, in whatever order, and whenever
\* the form is sent: a request may be refused before it takes the database,
\* but none that gets a write session fails in it or keeps it for an endless
\* loop. And what a field reads stays in its range, also after the page has
\* corrected it for the sake of the other.
MembersCanBeDrawn ==
    /\ answer \notin {"failed", "endless"}
    /\ minm.reads \subseteq MinLow .. MinHigh
    /\ maxm.reads \subseteq MaxLow .. MaxHigh
    /\ limit.reads \subseteq LimitLow .. LimitHigh
=============================================================================
