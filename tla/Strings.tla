------------------------------- MODULE Strings -------------------------------
(***************************************************************************)
(* The tokenizer of string.c, and its functions that copy texts one behind *)
(* the other into memory: xstrncpy(), xstrlcpy() and xstrjoinex().         *)
(*                                                                         *)
(* The memory is a sequence as long as what was allocated: a function that *)
(* writes beyond its end makes the sequence longer.                        *)
(***************************************************************************)
EXTENDS CString

CONSTANTS
    TokenTexts,     \* texts to be taken apart
    SeparatorSets,  \* the separators of one call of xstrtok_next
    CopyTexts,      \* texts to be copied
    MemoryRoom      \* size of the memory they are copied into

VARIABLES
    original,       \* the text of the tokenizer
    prev_chunk,     \* what is left of it, NULL when it is empty
    tokens,         \* the tokens so far, with the separators of each call
    target,         \* the bytes of the memory
    targetSize,     \* its size
    end,            \* where the last text ended
    wanted          \* the texts that were copied, as far as they had to fit

stringVars == <<original, prev_chunk, tokens, target, targetSize, end, wanted>>

-----------------------------------------------------------------------------
(* xstrtok_next                                                            *)

\* Mutation of Nearest: the first separator of the list that is found.
NearestInList(t, p, separators) ==
    LET found == {c \in separators : StrChr(t, p, c) # NULL}
    IN  IF found = {} THEN NULL ELSE StrChr(t, p, CHOOSE c \in found : \A d \in found : c <= d)

\* The first place where one of the separators is.
Nearest(t, p, separators) == FirstOf({StrChr(t, p, c) : c \in separators} \ {NULL})

NextToken(separators) ==
    LET separator == Nearest(original, prev_chunk, separators)
        last      == IF separator = NULL THEN Len(original) ELSE separator
    IN  /\ prev_chunk # NULL
        /\ tokens' = Append(tokens, [token |-> SubSeq(original, prev_chunk + 1, last),
                                     separators |-> separators])
        /\ prev_chunk' = IF separator = NULL THEN NULL ELSE separator + 1
        /\ UNCHANGED <<original, target, targetSize, end, wanted>>

-----------------------------------------------------------------------------
(* Copies.                                                                 *)

Write(m, p, bytes) == Front(m, p) \o bytes \o Rest(m, p + Len(bytes))

Zeros(n) == [i \in 1..n |-> 0]

\* xstrcpy
WithCopy(m, p, t) == Write(m, p, t \o <<0>>)

\* xstrncpy: what is left of maxlen is filled with zeros.
CopyN(t, maxlen) ==
    /\ end + maxlen <= targetSize
    /\ LET len == Lesser(Len(t), maxlen)
       IN  /\ target' = Write(target, end, Front(t, len) \o Zeros(maxlen - len))
           /\ end' = end + len
           /\ wanted' = wanted \o Front(t, len)
    /\ UNCHANGED <<original, prev_chunk, tokens, targetSize>>

\* Mutation of FittingLength: no place is left for the zero.
FittingWithoutZero(t, size) == Lesser(Len(t), size)

\* The number of bytes of t that xstrlcpy copies in front of the zero.
FittingLength(t, size) == IF Len(t) >= size THEN size - 1 ELSE Len(t)

\* xstrlcpy; it copies nothing when there is no targetSize for the zero.
CopyL(t, size) ==
    /\ end + size <= targetSize /\ size > 0
    /\ target' = WithCopy(target, end, Front(t, FittingLength(t, size)))
    /\ end' = end + FittingLength(t, size)
    /\ wanted' = wanted \o Front(t, Lesser(Len(t), size - 1))
    /\ UNCHANGED <<original, prev_chunk, tokens, targetSize>>

\* xstrjoinex, into target of its own
Join(first, second, third) ==
    LET length == Len(first) + Len(second) + 1 + (IF third = NULL THEN 0 ELSE Len(third))
        two    == WithCopy(WithCopy(Zeros(length), 0, first), Len(first), second)
    IN  /\ end = 0 /\ targetSize = MemoryRoom
        /\ targetSize' = length
        /\ target' = IF third = NULL THEN two ELSE WithCopy(two, Len(first) + Len(second), third)
        /\ end' = length - 1
        /\ wanted' = first \o second \o (IF third = NULL THEN <<>> ELSE third)
        /\ UNCHANGED <<original, prev_chunk, tokens>>

StringsInit ==
    /\ original \in TokenTexts /\ prev_chunk = 0 /\ tokens = <<>>
    /\ targetSize = MemoryRoom /\ target = [i \in 1..MemoryRoom |-> 255]
    /\ end = 0 /\ wanted = <<>>

StringsNext ==
    \/ \E separators \in SeparatorSets : NextToken(separators)
    \/ \E t \in CopyTexts, n \in 0..MemoryRoom : CopyN(t, n) \/ CopyL(t, n)
    \/ \E first, second \in CopyTexts, third \in CopyTexts \cup {NULL} : Join(first, second, third)

-----------------------------------------------------------------------------
(* Properties.                                                             *)

\* Where the k-th token begins if the tokens are the text, one after the other,
\* with one byte between them.
TokenBegin[k \in 1..20] ==
    IF k = 1 THEN 0 ELSE TokenBegin[k - 1] + Len(tokens[k - 1].token) + 1

\* xstrtok_next: whatever separators each call is given, no byte of the text is
\* lost or returned twice, no token goes beyond the nearest of its separators, and
\* only the last one ends without a separator.
TokensAreTheText ==
    /\ \A k \in DOMAIN tokens :
        LET last == TokenBegin[k] + Len(tokens[k].token)
        IN  /\ tokens[k].token = SubSeq(original, TokenBegin[k] + 1, last)
            /\ \A i \in DOMAIN tokens[k].token : tokens[k].token[i] \notin tokens[k].separators
            /\ IF k = Len(tokens) /\ prev_chunk = NULL
               THEN last = Len(original)
               ELSE original[last + 1] \in tokens[k].separators
    /\ prev_chunk # NULL => prev_chunk = TokenBegin[Len(tokens) + 1]

\* xstrncpy, xstrlcpy, xstrjoinex: each text follows the one before it, cut where the
\* size says, and no byte is written outside the target.
TextBuilt == Len(target) = targetSize /\ end <= targetSize /\ Front(target, end) = wanted

\* Texts survive being cut into tokens and copied into memory of any size.
TextsKept == TokensAreTheText /\ TextBuilt

=============================================================================
