----------------------------- MODULE PackedVector -----------------------------
(* A vector of strings as the value of one field: packed into a text by        *)
(* TranslateFromVector, unpacked by TranslateToVector when the field is an      *)
(* array of the table, and read back by string2Container.                      *)
(*                                                                             *)
(* A text is a sequence of characters.  One text goes its way per history; a   *)
(* step of TranslateToVector is one round of its loop.                         *)
EXTENDS Naturals, FiniteSets, SequencesExt

CONSTANTS
    Strings,   \* strings that an application puts into a vector
    MaxLen,    \* bound on the length of a vector
    RawTexts   \* texts that an application gives to a field by itself

(* A text is made of characters.                                               *)
Texts == Seq(STRING)

NotPacked == <<<<"not packed">>>>

ASSUME TextsAssumption ==
    /\ Strings \subseteq Texts /\ RawTexts \subseteq Texts
    /\ NotPacked \notin Seq(Strings)
    /\ MaxLen \in Nat

(* Number is atoi for these: no sign, no white space but blanks (and no number *)
(* beyond an int, for which atoi is not defined).                              *)
ASSUME RawTextsAssumption ==
    \A t \in RawTexts : ToSet(t) \cap {"+", "-", "\t", "\n", "\f", "\r"} = {}

Digits == <<"0", "1", "2", "3", "4", "5", "6", "7", "8", "9">>
Digit(n) == Digits[n + 1]
ValueOf(d) == (CHOOSE i \in DOMAIN Digits : Digits[i] = d) - 1
IsDigit(c) == c \in ToSet(Digits)

(* std::to_string.                                                             *)
Decimal[n \in Nat] ==
    IF n < 10 THEN <<Digit(n)>> ELSE Decimal[n \div 10] \o <<Digit(n % 10)>>

VARIABLES
    isArray, \* flags.is_array of the field, a text: author.books is none
    vec,    \* the vector, or NotPacked for a text of RawTexts
    text,   \* the value of the field
    phase,  \* "unpack", "thrown", "insert", "refused", "stored", "read"
    start,  \* TranslateToVector: where the next element begins
    out,    \* TranslateToVector: elements so far
    st,     \* TranslateToVector: its status
    back    \* what string2Container has made of the column

vars == <<isArray, vec, text, phase, start, out, st, back>>

-----------------------------------------------------------------------------
(* Mutant: the length without the blank behind it.                             *)
PackedWithoutBlank(v) == FlattenSeq([i \in DOMAIN v |-> Decimal[Len(v[i])] \o v[i]])

TranslateFromVector(v) ==
    FlattenSeq([i \in DOMAIN v |-> Decimal[Len(v[i])] \o <<" ">> \o v[i]])

(* atoi at place i: blanks are skipped, and no number counts as zero.          *)
BlanksEnd(s, i) == CHOOSE j \in i .. Len(s) + 1 :
    /\ j = Len(s) + 1 \/ s[j] # " "
    /\ \A k \in i .. j - 1 : s[k] = " "
DigitsEnd(s, i) == CHOOSE j \in i .. Len(s) + 1 :
    /\ j = Len(s) + 1 \/ ~IsDigit(s[j])
    /\ \A k \in i .. j - 1 : IsDigit(s[k])
AddDigit(n, d) == 10 * n + ValueOf(d)
Number(s, i) ==
    LET first == BlanksEnd(s, i)
    IN  FoldLeft(AddDigit, 0, SubSeq(s, first, DigitsEnd(s, first) - 1))

Blanks(s, i) == {k \in i .. Len(s) : s[k] = " "}
Find(s, i) == CHOOSE k \in Blanks(s, i) : \A j \in Blanks(s, i) : k <= j

(* Mutant: an element may end behind the text.                                 *)
TakeUnchecked(n, pos) ==
    /\ out' = Append(out, SubSeq(text, pos + 1, Len(text)))
    /\ start' = pos + n + 1
    /\ UNCHANGED <<phase, st>>

(* Mutant: an error does not end the loop.                                     *)
TakeWithoutBreak(n, pos) ==
    IF pos + n <= Len(text)
    THEN /\ out' = Append(out, SubSeq(text, pos + 1, pos + n))
         /\ start' = pos + n + 1
         /\ UNCHANGED <<phase, st>>
    ELSE /\ st' = "HAVE_ERROR"
         /\ UNCHANGED <<phase, start, out>>

(* Take the n characters behind the blank at pos, if there are so many.        *)
Take(n, pos) ==
    IF pos + n <= Len(text)
    THEN /\ out' = Append(out, SubSeq(text, pos + 1, pos + n))
         /\ start' = pos + n + 1
         /\ UNCHANGED <<phase, st>>
    ELSE /\ st' = "HAVE_ERROR"
         /\ phase' = "insert"
         /\ UNCHANGED <<start, out>>

(* One round of TranslateToVector.  A text without a further blank ends it     *)
(* with the status so far; a length that is no number is thrown.               *)
TranslateToVector ==
    /\ phase = "unpack"
    /\ start <= Len(text)
    /\ IF Blanks(text, start) = {}
       THEN phase' = "insert" /\ UNCHANGED <<start, out, st>>
       ELSE IF Number(text, start) = 0
            THEN phase' = "thrown" /\ UNCHANGED <<start, out, st>>
            ELSE Take(Number(text, start), Find(text, start))
    /\ UNCHANGED <<isArray, vec, text, back>>

Unpacked ==
    /\ phase = "unpack"
    /\ start > Len(text)
    /\ phase' = "insert"
    /\ UNCHANGED <<isArray, vec, text, start, out, st, back>>

-----------------------------------------------------------------------------
(* The column.                                                                 *)

Joined(strings) ==
    IF strings = <<>> THEN <<>>
    ELSE Front(FlattenSeq([i \in DOMAIN strings |-> strings[i] \o <<",">>]))

(* The server gives an array back between braces, its elements between quotes  *)
(* where they would not be read as they are.  (The white space that it looks   *)
(* for includes the vertical tab, which has no name here.)                     *)
IsNull(e) ==
    /\ Len(e) = 4 /\ e[1] \in {"n", "N"} /\ e[2] \in {"u", "U"}
    /\ \A i \in 3 .. 4 : e[i] \in {"l", "L"}
NeedsQuotes(e) ==
    \/ e = <<>> \/ IsNull(e)
    \/ ToSet(e) \cap {"{", "}", ",", "\"", "\\", " ", "\t", "\n", "\f", "\r"} # {}
Escaped(e) ==
    FlattenSeq([i \in DOMAIN e |-> IF e[i] \in {"\"", "\\"} THEN <<"\\", e[i]>> ELSE <<e[i]>>])
Element(e) == IF NeedsQuotes(e) THEN <<"\"">> \o Escaped(e) \o <<"\"">> ELSE e
ArrayText(strings) ==
    <<"{">> \o Joined([i \in DOMAIN strings |-> Element(strings[i])]) \o <<"}">>

(* addVariableToString: an array of the elements, an empty one when the text   *)
(* could not be unpacked; the text itself for any other field.  The server     *)
(* refuses ARRAY[], whose type it cannot tell.                                 *)
WriteColumn ==
    LET elements == IF st = "OK" THEN out ELSE <<>>
    IN  /\ phase = "insert"
        /\ IF isArray /\ elements = <<>>
           THEN phase' = "refused" /\ text' = text
           ELSE phase' = "stored" /\ text' = IF isArray THEN ArrayText(elements) ELSE text
        /\ UNCHANGED <<isArray, vec, start, out, st, back>>

(* Mutant: the braces stay.                                                    *)
BracesKept(s) == s

WithoutBraces(s) ==
    FlattenSeq([i \in DOMAIN s |-> IF s[i] \in {"{", "}"} THEN <<>> ELSE <<s[i]>>])

(* split_str at commas: a part begins at the text's begin and behind a comma.  *)
PartEnd(s, i) == CHOOSE j \in i .. Len(s) + 1 :
    /\ j = Len(s) + 1 \/ s[j] = ","
    /\ \A k \in i .. j - 1 : s[k] # ","
Parts(s) ==
    IF s = <<>> THEN <<>>
    ELSE FlattenSeq([i \in 1 .. Len(s) + 1 |->
                        IF i = 1 \/ s[i - 1] = "," THEN <<SubSeq(s, i, PartEnd(s, i) - 1)>>
                        ELSE <<>>])

string2Container ==
    /\ phase = "stored"
    /\ back' = Parts(WithoutBraces(text))
    /\ phase' = "read"
    /\ UNCHANGED <<isArray, vec, text, start, out, st>>

-----------------------------------------------------------------------------
Init ==
    /\ \/ /\ vec \in UNION {[1 .. n -> Strings] : n \in 0 .. MaxLen}
          /\ text = TranslateFromVector(vec)
       \/ /\ vec = NotPacked
          /\ text \in RawTexts
    /\ isArray \in BOOLEAN
    /\ phase = IF isArray THEN "unpack" ELSE "insert"
    /\ start = 1
    /\ out = <<>>
    /\ st = "OK"
    /\ back = <<>>

Next == TranslateToVector \/ Unpacked \/ WriteColumn \/ string2Container

Spec == Init /\ [][Next]_vars
FairSpec == Spec /\ WF_vars(Next)

-----------------------------------------------------------------------------
(* Properties.                                                                 *)

IsPacked == vec # NotPacked

(* Nothing is read beyond the end of the text, whatever an application put     *)
(* into it: the place of the next element is at most one behind the last one.  *)
TypeOK ==
    /\ phase \in {"unpack", "thrown", "insert", "refused", "stored", "read"}
    /\ st \in {"OK", "HAVE_ERROR"}
    /\ phase = "unpack" => start \in 1 .. Len(text) + 1

(* "So we unpack the vector" (db_defines.h:258-261), which                     *)
(* "packs an array" (db_defines.h:239-244): unpacking gives what was packed,   *)
(* also when the elements look like lengths and blanks themselves.  Unpacking  *)
(* throws only for an empty element, and the server refuses only a vector      *)
(* without elements.                                                           *)
PackedComesBack ==
    /\ (IsPacked /\ phase = "insert" /\ isArray) => st = "OK" /\ out = vec
    /\ (IsPacked /\ phase = "thrown") => <<>> \in ToSet(vec)
    /\ (IsPacked /\ phase = "refused") => vec = <<>>

(* A vector of words that is stored in an array column is read from it again:  *)
(* of strings that the server writes without quotes.  (From a field that is no *)
(* array, like author.books, it is not: the packed text is stored as it is and *)
(* cut at its commas, if it has any.)                                          *)
IsWord(e) == ~NeedsQuotes(e)
ColumnComesBack ==
    (IsPacked /\ isArray /\ phase = "read" /\ \A e \in ToSet(vec) : IsWord(e))
        => back = vec

(* Every text is dealt with in the end: unpacking neither hangs nor repeats.   *)
EveryTextEnds == <>(phase \in {"thrown", "refused", "read"})
=============================================================================
