------------------------------- MODULE CString -------------------------------
(***************************************************************************)
(* Texts as string.c and its callers search them.  A text is the sequence  *)
(* of its bytes without the terminating zero, and a pointer into it is an  *)
(* offset: t[p + 1] is the byte p points to, and p = Len(t) the zero.      *)
(***************************************************************************)
EXTENDS Bytes
LOCAL INSTANCE FiniteSetsExt

Blanks == {9, 32}       \* " \t"

\* isgraph
Graphic(c) == c \in 33..126

FirstOf(S) == IF S = {} THEN NULL ELSE Min(S)

\* strchr and strstr from the pointer p on
StrChr(t, p, c) == FirstOf({i \in p .. Len(t) - 1 : t[i + 1] = c})

StrStr(t, p, pattern) ==
    FirstOf({i \in p .. Len(t) - Len(pattern) : SubSeq(t, i + 1, i + Len(pattern)) = pattern})

Lower(c) == IF c \in 65..90 THEN c + 32 ELSE c

\* strcasecmp; strncasecmp(t + p, name, strlen(name)) below
SameText(s, t) == Len(s) = Len(t) /\ \A i \in DOMAIN s : Lower(s[i]) = Lower(t[i])

\* Mutation of Begins: the case of letters counts.
BeginsExactly(t, p, name) == p + Len(name) <= Len(t) /\ SubSeq(t, p + 1, p + Len(name)) = name

Begins(t, p, name) == p + Len(name) <= Len(t) /\ SameText(SubSeq(t, p + 1, p + Len(name)), name)

\* The pointer behind the bytes that are in S.
Behind(t, p, S) ==
    LET rest == {i \in p .. Len(t) - 1 : t[i + 1] \notin S}
    IN  IF rest = {} THEN Len(t) ELSE Min(rest)

NonGraphic == {c \in Byte : ~Graphic(c)}

\* p + xstr_space_len(p, " \t"), and xstrltrim(p)
SkipBlanks(t, p) == Behind(t, p, Blanks)

SkipSpace(t, p) == Behind(t, p, NonGraphic)

\* The word that begins at p: xstrndup(p, xstr_word_len(p, NULL)).
WordAt(t, p) == SubSeq(t, p + 1, Behind(t, p, 33..126))

LeftTrimmed(t) == Rest(t, SkipSpace(t, 0))

\* xstrrtrim never cuts the first byte.
RightTrimmed(t) ==
    LET graphic == {i \in 2..Len(t) : Graphic(t[i])}
    IN  Front(t, IF graphic # {} THEN Max(graphic) ELSE Lesser(1, Len(t)))

=============================================================================
