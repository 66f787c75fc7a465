------------------------------ MODULE Formats ------------------------------
(***************************************************************************)
(* Two conversions on strings: the digits of a pairing code                *)
(* (internal/pki/pairing.go), which are printed by one program and typed   *)
(* into another, and the host name of a peer (internal/discovery/mdns.go), *)
(* which zeroconf delivers with its domain repeated.  A string is a        *)
(* sequence of characters, "local" counting as one.  The input is any      *)
(* string up to a bound.                                                   *)
(***************************************************************************)
EXTENDS Integers, Sequences, SequencesExt

CONSTANTS Digits,     \* the digits in their order, from zero
          CodeDigits, \* 8
          MaxText    \* bound: the longest string considered

ASSUME FormatsAssumption ==
    /\ Digits \in Seq(Range(Digits)) /\ Digits # <<>>
    /\ CodeDigits \in Nat \ {0} /\ MaxText \in Nat

VARIABLE text \* what is typed after --code, or announced as host name

-----------------------------------------------------------------------------
(***************************************************************************)
(* Pairing codes.                                                          *)
(***************************************************************************)

codeSpace ==
    LET power[i \in 0 .. CodeDigits] == IF i = 0 THEN 1 ELSE Len(Digits) * power[i - 1]
    IN  power[CodeDigits]

\* What is left of n when its last i digits have been printed.
Rests(n) ==
    LET rest[i \in 0 .. CodeDigits] == IF i = 0 THEN n ELSE rest[i - 1] \div Len(Digits)
    IN  rest

\* The digit of n that has i digits to its right.
DigitOf(n, i) == Digits[1 + (Rests(n)[i] % Len(Digits))]

\* Mutant: the number is printed without leading zeros.
GenerateCodeUnpadded(n) ==
    LET width == CHOOSE w \in 1 .. CodeDigits :
                     Rests(n)[w] = 0 /\ \A v \in 1 .. w - 1 : Rests(n)[v] # 0
    IN  [i \in 1 .. width |-> DigitOf(n, width - i)]

\* GenerateCode once n has been drawn below codeSpace.
GenerateCode(n) == [i \in 1 .. CodeDigits |-> DigitOf(n, CodeDigits - i)]

ValidateCodeFormat(code) ==
    Len(code) = CodeDigits /\ Range(code) \subseteq Range(Digits)

-----------------------------------------------------------------------------
(***************************************************************************)
(* Host names.                                                             *)
(***************************************************************************)

Domain == <<".", "local">>

\* strings.HasSuffix and strings.TrimSuffix.
HasSuffix(s, t) ==
    Len(t) <= Len(s) /\ SubSeq(s, (Len(s) - Len(t)) + 1, Len(s)) = t

TrimSuffix(s, t) == IF HasSuffix(s, t) THEN SubSeq(s, 1, Len(s) - Len(t)) ELSE s

\* Mutant: the repeated domain is removed once.
normalizeHostOnce(h) ==
    LET s == TrimSuffix(h, <<".">>)
    IN  IF HasSuffix(s, Domain \o Domain) THEN TrimSuffix(s, Domain) ELSE s

\* normalizeHost: a final dot goes, and the domain as long as it is repeated.  The
\* loop ends after the first number of turns that leaves no repetition.
normalizeHost(h) ==
    LET s == TrimSuffix(h, <<".">>)
        left(n) == SubSeq(s, 1, Len(s) - n * Len(Domain))
        ends == {n \in 0 .. Len(s) : ~HasSuffix(left(n), Domain \o Domain)}
    IN  left(CHOOSE n \in ends : \A m \in ends : n <= m)

-----------------------------------------------------------------------------

TextChars == Range(Digits) \cup {"x", ".", "local"}

FormatsInit == text = <<>>

\* Another character: every string up to the bound is an input.
FormatsExtend ==
    /\ Len(text) < MaxText
    /\ \E ch \in TextChars : text' = Append(text, ch)

-----------------------------------------------------------------------------
(***************************************************************************)
(* Properties.                                                             *)
(***************************************************************************)

\* The codes that GenerateCode may draw.
Printed == {GenerateCode(n) : n \in 0 .. codeSpace - 1}

\* `meshctl join` accepts what `meshctl pair` may have printed and nothing else: the
\* strings that ValidateCodeFormat lets through are those GenerateCode makes, leading
\* zeros included, so no code is refused at the prompt and no attempt is spent on one
\* that cannot exist.
TypedIsPrintable ==
    ValidateCodeFormat(text) <=> text \in Printed

\* However often zeroconf repeats the domain, and with or without the final dot, a
\* peer's Hostname stays the same, so that peerChanged sees no change in it
\* (normalizeHost, called by handleEntry).
HostNameIsStable ==
    HasSuffix(text, Domain) =>
        \A dot \in {<<>>, <<".">>} :
            normalizeHost(text \o Domain \o dot) = normalizeHost(text)
=============================================================================
