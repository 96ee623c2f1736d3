---------------------------- MODULE StringReader ----------------------------
(***************************************************************************)
(* src/cstructures/src/string.c: string_getline, one character per step,   *)
(* and the tokenizer cs_stringok, one call per step.                       *)
(*                                                                         *)
(* The characters are in a vector, used here by what Vector promises: a    *)
(* push appends, or is refused for want of memory and changes nothing.     *)
(* Positions in it count from 1, and the tokenizer's save pointer is the   *)
(* position before the next token.                                         *)
(***************************************************************************)
EXTENDS Integers, Sequences, FiniteSets, SequencesExt

CONSTANTS
  Letter,      \* the characters without a meaning
  CR,          \* '\r'
  LF,          \* '\n'
  NUL,         \* '\0', which no text contains
  Delimiter,   \* the delimiter handed to the tokenizer, an ordinary character
  MaxText,     \* bound: the longest stream
  MaxCalls,    \* bound: how often the tokenizer is called for a string
  Nothing      \* no pointer, no token, or no answer yet

ASSUME DistinctAssumption ==
  /\ {CR, LF, NUL, Delimiter, Nothing} \cap Letter = {}
  /\ \A s \in {<<CR, LF, NUL, Delimiter, Nothing>>} : \A i, j \in 1 .. 5 : s[i] = s[j] => i = j
  /\ Nothing \notin Int
ASSUME BoundsAssumption == MaxText \in Nat /\ MaxCalls \in Nat

VARIABLES
  text,      \* history: what the stream held at first
  stream,    \* what fgetc has not returned yet
  buf,       \* str->buf
  phase,     \* "idle", "reading" in string_getline, or "line" with a string read
  ret,       \* what string_getline returned last
  lines,     \* history: the strings it returned
  refused,   \* history: has a push been refused?
  saveptr,   \* the tokenizer's *saveptr
  subject,   \* history: the string when the tokenizer was called with it
  tokens     \* history: its answers since

reader == <<stream, phase, ret, lines, refused>>
tokenizer == <<saveptr, subject, tokens>>
vars == <<text, buf, reader, tokenizer>>

Char == Letter \cup {CR, LF, Delimiter}

Init ==
  /\ text \in BoundedSeq(Char, MaxText)
  /\ stream = text
  /\ buf = << >>
  /\ phase = "idle"
  /\ ret = Nothing
  /\ lines = << >>
  /\ refused = FALSE
  /\ saveptr = Nothing
  /\ subject = << >>
  /\ tokens = << >>

-----------------------------------------------------------------------------
(* string_getline.                                                         *)

(* Slip: the buffer is not cleared.                                        *)
GetlineKeepsBuffer ==
  /\ phase # "reading"
  /\ phase' = "reading"
  /\ ret' = Nothing
  /\ saveptr' = Nothing
  /\ subject' = << >>
  /\ tokens' = << >>
  /\ UNCHANGED <<text, stream, buf, lines, refused>>

(* vector_clear.  The save pointer is of no use any more.                  *)
Getline ==
  /\ phase # "reading"
  /\ buf' = << >>
  /\ phase' = "reading"
  /\ ret' = Nothing
  /\ saveptr' = Nothing
  /\ subject' = << >>
  /\ tokens' = << >>
  /\ UNCHANGED <<text, stream, lines, refused>>

Fgetc(c) ==
  /\ phase = "reading"
  /\ stream # << >>
  /\ c = Head(stream)
  /\ stream' = Tail(stream)
  /\ UNCHANGED <<text, tokenizer>>

GoOn == UNCHANGED <<buf, phase, ret, lines, refused>>

PushRefused ==
  /\ ret' = -1
  /\ phase' = "idle"
  /\ refused' = TRUE
  /\ UNCHANGED <<buf, lines>>

Pushed(c) ==
  /\ buf' = Append(buf, c)
  /\ UNCHANGED <<phase, ret, lines, refused>>

(* Slip: the carriage is put back.                                         *)
CarriageReread ==
  /\ phase = "reading"
  /\ stream # << >>
  /\ Head(stream) = CR
  /\ UNCHANGED vars

IgnoreCarriage == Fgetc(CR) /\ GoOn

IgnoreEmptyLine == Fgetc(LF) /\ buf = << >> /\ GoOn

(* Slip: an empty line is a string too.                                    *)
CompleteAnyLine ==
  /\ Fgetc(LF)
  /\ buf' = Append(buf, NUL)
  /\ phase' = "line"
  /\ ret' = 1
  /\ lines' = Append(lines, buf)
  /\ UNCHANGED refused

CompleteLine ==
  /\ Fgetc(LF)
  /\ buf # << >>
  /\ \/ PushRefused
     \/ /\ buf' = Append(buf, NUL)
        /\ phase' = "line"
        /\ ret' = 1
        /\ lines' = Append(lines, buf)
        /\ UNCHANGED refused

(* Slip: a refused character is skipped and reading goes on.               *)
ReadLetterSkipping ==
  \E c \in Char \ {CR, LF} :
    /\ Fgetc(c)
    /\ GoOn \/ Pushed(c)

ReadLetter ==
  \E c \in Char \ {CR, LF} :
    /\ Fgetc(c)
    /\ PushRefused \/ Pushed(c)

(* EOF.                                                                    *)
EndOfFile ==
  /\ phase = "reading"
  /\ stream = << >>
  /\ ret' = 0
  /\ phase' = "idle"
  /\ UNCHANGED <<text, buf, stream, lines, refused, tokenizer>>

Read == IgnoreCarriage \/ IgnoreEmptyLine \/ CompleteLine \/ ReadLetter \/ EndOfFile

-----------------------------------------------------------------------------
(* cs_stringok.                                                            *)

(* The C string from position i on: what lies before the next NUL.         *)
EndOfString(b, i) == CHOOSE e \in i .. Len(b) : b[e] = NUL /\ \A j \in i .. (e - 1) : b[j] # NUL
CString(b, i) == SubSeq(b, i, EndOfString(b, i) - 1)

(* Slip: the search for the delimiter skips the first character.           *)
StrchrBehind(b, i) ==
  {p \in (i + 1) .. (EndOfString(b, i) - 1) :
     b[p] = Delimiter /\ \A j \in (i + 1) .. (p - 1) : b[j] # Delimiter}

(* Where strchr finds the delimiter, as a set of at most one position.     *)
Strchr(b, i) ==
  {p \in i .. (EndOfString(b, i) - 1) : b[p] = Delimiter /\ \A j \in i .. (p - 1) : b[j] # Delimiter}

(* The rest of the call, with *saveptr at `before` and the answers so far. *)
NextToken(before, answers) ==
  LET begin == before + 1
      hit == Strchr(buf, begin)
      cut == [p \in DOMAIN buf |-> IF p \in hit THEN NUL ELSE buf[p]]
      token == CString(cut, begin)
  IN  /\ buf' = cut
      /\ saveptr' = IF hit = {} THEN Nothing ELSE CHOOSE p \in hit : TRUE
      /\ tokens' = Append(answers, IF token = << >> THEN Nothing ELSE token)

TokenizeFirst ==
  /\ phase = "line"
  /\ subject' = CString(buf, 1)
  /\ NextToken(0, << >>)
  /\ UNCHANGED <<text, reader>>

TokenizeNext ==
  /\ phase = "line"
  /\ tokens # << >>
  /\ Len(tokens) < MaxCalls
  /\ \/ /\ saveptr # Nothing
        /\ NextToken(saveptr, tokens)
     \/ /\ saveptr = Nothing
        /\ tokens' = Append(tokens, Nothing)
        /\ UNCHANGED <<buf, saveptr>>
  /\ UNCHANGED <<text, reader, subject>>

Next == Getline \/ Read \/ TokenizeFirst \/ TokenizeNext

Spec == Init /\ [][Next]_vars

(* A call of string_getline is a loop that goes on until it returns.       *)
FairSpec == Spec /\ WF_vars(Read)

-----------------------------------------------------------------------------
(* What a reader expects, defined without the loop.                        *)

(* The elements of a finite set of numbers, in ascending order.            *)
InOrder(S) == [n \in 1 .. Cardinality(S) |-> CHOOSE x \in S : Cardinality({y \in S : y <= x}) = n]

(* What s has at the given positions.                                      *)
Kept(s, positions) == [n \in 1 .. Cardinality(positions) |-> s[InOrder(positions)[n]]]

(* The pieces of s between the occurrences of c: one more than there are.  *)
Pieces(s, c) ==
  LET cuts == InOrder({0, Len(s) + 1} \cup {i \in DOMAIN s : s[i] = c})
  IN  [n \in 1 .. (Len(cuts) - 1) |-> SubSeq(s, cuts[n] + 1, cuts[n + 1] - 1)]

(* The lines of a text that end with a newline and are not empty, without  *)
(* their carriages; and what lies behind the last newline.                 *)
Uncarriaged(t) == Kept(t, {i \in DOMAIN t : t[i] # CR})
NonEmpty(s) == Kept(s, {i \in DOMAIN s : s[i] # << >>})
LinesOf(t) == NonEmpty(Front(Pieces(Uncarriaged(t), LF)))
UnendedOf(t) == Last(Pieces(Uncarriaged(t), LF))

LinesOfText == LinesOf(text)
UnendedLine == UnendedOf(text)

-----------------------------------------------------------------------------
(* Properties.                                                             *)

(* The strings read are the lines of the text, in order and none left out, *)
(* unless a push was refused; at the end they are all of them.             *)
ReadsLinesInOrder ==
  ~ refused => /\ IsPrefix(lines, LinesOfText)
               /\ ret = 0 => lines = LinesOfText

(* A refused push costs the part of the line read before it, and no more:  *)
(* what is read later is still in order, and each string is the end of a   *)
(* line or a whole one, never two lines run together or one with a hole.   *)
RefusalLosesBeginnings ==
  \E sources \in [1 .. Len(lines) -> 1 .. Len(LinesOfText)] :
    \A i \in 1 .. Len(lines) :
      /\ IsSuffix(lines[i], LinesOfText[sources[i]])
      /\ i > 1 => sources[i - 1] < sources[i]

(* string.h: string_getline is guaranteed to return a string of non-zero   *)
(* length; it has its terminator, and string_length is right about it.     *)
StringsAreTerminated ==
  phase = "line" /\ tokens = << >> =>
    buf # << >> /\ Last(buf) = NUL /\ CString(buf, 1) = Front(buf) /\ Len(buf) - 1 > 0

(* The answers of the tokenizer are the fields of the string, in order,    *)
(* with an empty field and the end answered by NULL, although it cuts the  *)
(* string it walks and may be started over on one it has cut before.       *)
TokensAreFields ==
  LET fields == Pieces(subject, Delimiter)
  IN  \A i \in 1 .. Len(tokens) :
        tokens[i] = IF i <= Len(fields) /\ fields[i] # << >> THEN fields[i] ELSE Nothing

(* Every call of string_getline returns.                                   *)
GetlineReturns == phase = "reading" ~> phase # "reading"

(* string.h: string_getline returns 0 if there are no more strings to      *)
(* read.                                                                   *)
NothingLeftAtEnd == ret = 0 /\ ~ refused => UnendedLine = << >>
=============================================================================
