----------------------------- MODULE JoinCode -----------------------------
(***************************************************************************)
(* The code of a team: drawn as a number, padded, read out, typed into a   *)
(* field that spaces the digits, and looked up.                            *)
(*                                                                         *)
(* A character is a digit, Blank or Other; the code has Size digits in     *)
(* base Base, 6 and 10 in the app.  What a match goes on to do is in       *)
(* Membership, and a query is answered at once here.                       *)
(***************************************************************************)
EXTENDS Naturals, FiniteSets, SequencesExt

CONSTANTS
    Base,       \* how many digits there are
    Size,       \* how many a code has
    Blank,      \* the space of the mask
    Other,      \* any character a paste can bring that is not a digit
    Teams,      \* team ids
    NoCode,     \* the code of a team that does not exist
    MaxTaps,    \* how often Create is tapped before the screen is gone
    Inserts     \* what can be typed or pasted at once

Digits == 0..(Base - 1)
Chars == Digits \cup {Blank, Other}
Numbers == 1..(Base^Size - 1)

ASSUME BaseAssumption ==
    /\ Base \in Nat /\ Base >= 2
    /\ Size \in Nat /\ Size >= 1
ASSUME CharsAssumption ==
    Blank \notin Digits /\ Other \notin Digits \cup {Blank}
ASSUME InsertsAssumption == Inserts \subseteq Seq(Chars) /\ MaxTaps \in Nat
ASSUME NoCodeAssumption == NoCode \notin Seq(Chars) \cup Numbers

VARIABLES
    number,     \* CreateNewTeamViewController.randomNumString, before padding
    open,       \* whether the create screen is in front
    taps,       \* taps on Create that were not handled yet
    code,       \* per team: its teamCode
    drawn,      \* per team: the number its code was made from
    text,       \* the text of the join screen's field
    joined      \* the teams joined

vars == <<number, open, taps, code, drawn, text, joined>>

-----------------------------------------------------------------------------
(* Drawing a code *)

\* "\(n)"
Decimal[n \in Nat] ==
    IF n < Base THEN <<n>> ELSE Append(Decimal[n \div Base], n % Base)

\* A slip in AddZeros: the zeros go to the end.
AddZerosBehind(s) == s \o [k \in 1..(Size - Len(s)) |-> 0]

\* A zero is put in front until there are Size digits.
AddZeros(s) == [k \in 1..(Size - Len(s)) |-> 0] \o s

-----------------------------------------------------------------------------
(* The field *)

\* "X X X X X X": TRUE where a digit goes.
Mask == [k \in 1..(2 * Size - 1) |-> k % 2 = 1]

\* A slip in Format: the space after a digit is put there with the digit.
FormatEager(t) ==
    LET step(acc, isX) ==
            IF ~isX THEN acc
            ELSE IF acc.rest = <<>> THEN acc
            ELSE [out |-> acc.out \o <<Head(acc.rest), Blank>>,
                  rest |-> Tail(acc.rest)]
        all == [out |-> <<>>, rest |-> SelectSeq(t, LAMBDA ch : ch \in Digits)]
    IN  FoldLeft(step, all, Mask).out

\* A slip in Format: the mask is repeated, not a limit.
FormatAll(t) ==
    LET d == SelectSeq(t, LAMBDA ch : ch \in Digits)
    IN  [k \in 1..(IF d = <<>> THEN 0 ELSE 2 * Len(d) - 1) |->
            IF k % 2 = 1 THEN d[(k + 1) \div 2] ELSE Blank]

\* The mask is walked as long as there are digits left: a digit for an X, and
\* its own space otherwise.
Format(t) ==
    LET step(acc, isX) ==
            IF acc.rest = <<>> THEN acc
            ELSE IF isX
                 THEN [out |-> Append(acc.out, Head(acc.rest)),
                       rest |-> Tail(acc.rest)]
                 ELSE [acc EXCEPT !.out = Append(@, Blank)]
        all == [out |-> <<>>, rest |-> SelectSeq(t, LAMBDA ch : ch \in Digits)]
    IN  FoldLeft(step, all, Mask).out

\* What is looked up: the text without its spaces.
FinalCode(t) == SelectSeq(t, LAMBDA ch : ch # Blank)

WithCode(k) == {t \in Teams : code[t] = k}

-----------------------------------------------------------------------------
\* Types of all the state.  A text fits the mask.
TypeOK ==
    /\ number \in Numbers \cup {NoCode}
    /\ open \in BOOLEAN
    /\ taps \in 0..MaxTaps
    /\ \A t \in Teams :
          \/ code[t] = NoCode /\ drawn[t] = NoCode
          \/ /\ Len(code[t]) = Size /\ Range(code[t]) \subseteq Digits
             /\ drawn[t] \in Numbers
    /\ Len(text) <= 2 * Size - 1 /\ Range(text) \subseteq Digits \cup {Blank}
    /\ joined \subseteq Teams

Init ==
    /\ number = NoCode
    /\ open = FALSE
    /\ taps = 0
    /\ code = [t \in Teams |-> NoCode]
    /\ drawn = [t \in Teams |-> NoCode]
    /\ text = <<>>
    /\ joined = {}

\* The create screen opens: a number is drawn.
OpenCreate(n) ==
    /\ ~open /\ taps = 0
    /\ open' = TRUE
    /\ number' = n
    /\ UNCHANGED <<taps, code, drawn, text, joined>>

\* Create is tapped, which is handled a turn of the main queue later, or after
\* an upload.
TapCreate ==
    /\ open /\ taps < MaxTaps
    /\ taps' = taps + 1
    /\ UNCHANGED <<number, open, code, drawn, text, joined>>

\* A tap is handled: a team is made, and the screen goes.
CreateTeam(t) ==
    /\ taps > 0 /\ code[t] = NoCode
    /\ code' = [code EXCEPT ![t] = AddZeros(Decimal[number])]
    /\ drawn' = [drawn EXCEPT ![t] = number]
    /\ taps' = taps - 1
    /\ open' = FALSE
    /\ number' = IF taps = 1 THEN NoCode ELSE number
    /\ UNCHANGED <<text, joined>>

\* Characters from..to-1 of the text are replaced by s, and all of it is
\* formatted again.
Edit(from, to, s) ==
    /\ text' = Format(SubSeq(text, 1, from - 1) \o s
                         \o SubSeq(text, to, Len(text)))
    /\ UNCHANGED <<number, open, taps, code, drawn, joined>>

\* Confirmed: a team is joined, and the screen left, if it is the only match.
ConfirmCode ==
    /\ Len(FinalCode(text)) = Size
    /\ IF Cardinality(WithCode(FinalCode(text))) = 1
       THEN joined' = joined \cup WithCode(FinalCode(text)) /\ text' = <<>>
       ELSE UNCHANGED <<joined, text>>
    /\ UNCHANGED <<number, open, taps, code, drawn>>

Next ==
    \/ \E n \in Numbers : OpenCreate(n)
    \/ TapCreate
    \/ \E t \in Teams : CreateTeam(t)
    \/ \E from \in 1..(Len(text) + 1) : \E to \in from..(Len(text) + 1) :
          \E s \in Inserts : Edit(from, to, s)
    \/ ConfirmCode

Spec == Init /\ [][Next]_vars

-----------------------------------------------------------------------------
(* Properties *)

\* Whatever is typed, pasted or deleted, and wherever, the text is its digits
\* with one space between each two and none at the end.
Spaced ==
    LET d == FinalCode(text)
    IN  text = [k \in 1..(IF d = <<>> THEN 0 ELSE 2 * Len(d) - 1) |->
                   IF k % 2 = 1 THEN d[(k + 1) \div 2] ELSE Blank]

\* Backspace at the end of the text always erases the last digit: it never
\* gets stuck on a space that the mask puts back.
BackspaceErases ==
    text # <<>> => FinalCode(Format(Front(text))) = Front(FinalCode(text))

\* The code of a team finds that team and no other, unless another team's was
\* made from the same number: typed digit by digit, pasted at once, or pasted
\* in front of what is in the field.
CodeFindsTeam ==
    \A t \in Teams :
        (code[t] # NoCode /\ \A u \in Teams \ {t} : drawn[u] # drawn[t])
        => LET type(f, ch) == Format(Append(f, ch))
               typed == FoldLeft(type, <<>>, code[t])
           IN  /\ typed = Format(code[t])
               /\ Format(typed \o text) = typed
               /\ WithCode(FinalCode(typed)) = {t}
===========================================================================
