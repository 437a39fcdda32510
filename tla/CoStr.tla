-------------------------------- MODULE CoStr --------------------------------
(***************************************************************************)
(* String objects (co/co.c, lines 355 to 511): the bytes o->s.str with     *)
(* their terminator, their number o->s.len without it, and the flags that  *)
(* say whose the bytes are.  The size of an allocation is not recorded.    *)
(*                                                                         *)
(* An object that was given a string without CO_STRDUP refers to the bytes *)
(* of its caller, which stay as they are.  The strings given to the        *)
(* functions do not contain a terminator.                                  *)
(***************************************************************************)
EXTENDS CoMem

CONSTANTS
  Nul,      \* the terminator
  StrObj,   \* the string objects
  Strings,  \* the strings that are given to the functions
  MaxText   \* bound: the number of bytes of a string

ASSUME StrAssumption ==
  /\ Nul \notin Byte \cup {Junk}
  /\ Strings \subseteq Seq(Byte)
  /\ MaxText \in Nat
  /\ \A flags \in SUBSET {"CO_STRDUP", "CO_STRFREE"} : flags # None

VARIABLES
  sflags,  \* sflags[o]: o->flags; None when o does not exist
  smem,    \* smem[o]: the bytes at o->s.str, a function on 0 .. size - 1
  slen,    \* slen[o]: o->s.len
  sret,    \* what the last coStrAdd, coStrAddWithLen or coStrSet returned
  taken,   \* what coStrDeleteAndGetAllocatedStringContent has returned,
           \* when that was the last call
  halted   \* strlen was called with NULL

strVars == <<sflags, smem, slen, sret, taken, halted>>

Exists(o) == sflags[o] # None
Dup(o)    == Exists(o) /\ "CO_STRDUP" \in sflags[o]

\* the bytes of a C string
CStringOf(s) == Copied(Resized(<<>>, Len(s) + 1), 0, Append(s, Nul))

\* strlen
StrLen(mem) ==
  CHOOSE n \in DOMAIN mem : mem[n] = Nul /\ \A j \in 0 .. n - 1 : mem[j] # Nul

TextOf(mem, n) == [j \in 1 .. n |-> mem[j - 1]]

Made(o, flags, mem, n) ==
  /\ sflags' = [sflags EXCEPT ![o] = flags]
  /\ smem' = [smem EXCEPT ![o] = mem]
  /\ slen' = [slen EXCEPT ![o] = n]

\* coStrInit: of a copy, the object is the owner.  A string that is not copied may
\* be left to the object to free, too.
coNewStr(o, s, flags) ==
  /\ ~halted /\ ~Exists(o)
  /\ Made(o, IF "CO_STRDUP" \in flags THEN flags \cup {"CO_STRFREE"} ELSE flags,
          CStringOf(s), StrLen(CStringOf(s)))
  /\ taken' = None /\ UNCHANGED <<sret, halted>>

\* the result of strdup is not looked at
coNewStrFails(o, flags) ==
  /\ Oom /\ ~halted /\ ~Exists(o)
  /\ "CO_STRDUP" \in flags
  /\ halted' = TRUE
  /\ taken' = None /\ UNCHANGED <<sflags, smem, slen, sret>>

coNewStrWithLen(o, s) ==
  /\ ~halted /\ ~Exists(o)
  /\ Made(o, {"CO_STRDUP", "CO_STRFREE"},
          [Copied(Resized(<<>>, Len(s) + 1), 0, s) EXCEPT ![Len(s)] = Nul], Len(s))
  /\ taken' = None /\ UNCHANGED <<sret, halted>>

\* realloc fails, or the string is not the object's own
Unchanged0(o) ==
  /\ sret' = 0
  /\ taken' = None /\ UNCHANGED <<sflags, smem, slen, halted>>

AddFailsOrNotDup(o) ==
  /\ ~halted /\ Exists(o)
  /\ ~Dup(o) \/ Oom
  /\ Unchanged0(o)

\* (mutant: room for the bytes, but not for the terminator)
AddNoTerminator(o, s) ==
  /\ ~halted /\ Dup(o)
  /\ slen[o] + Len(s) <= MaxText
  /\ smem' = [smem EXCEPT ![o] = Copied(Resized(@, slen[o] + Len(s)), slen[o], Append(s, Nul))]
  /\ slen' = [slen EXCEPT ![o] = @ + Len(s)]
  /\ sret' = 1
  /\ taken' = None /\ UNCHANGED <<sflags, halted>>

\* strcpy behind the bytes that are there
coStrAdd(o, s) ==
  /\ ~halted /\ Dup(o)
  /\ slen[o] + Len(s) <= MaxText
  /\ smem' = [smem EXCEPT ![o] =
                Copied(Resized(@, slen[o] + Len(s) + 1), slen[o], Append(s, Nul))]
  /\ slen' = [slen EXCEPT ![o] = @ + Len(s)]
  /\ sret' = 1
  /\ taken' = None /\ UNCHANGED <<sflags, halted>>

\* strncpy, and the terminator after the length is known
coStrAddWithLen(o, s) ==
  /\ ~halted /\ Dup(o)
  /\ slen[o] + Len(s) <= MaxText
  /\ slen' = [slen EXCEPT ![o] = @ + Len(s)]
  /\ smem' = [smem EXCEPT ![o] =
                [Copied(Resized(@, slen[o] + Len(s) + 1), slen[o], s) EXCEPT ![slen'[o]] = Nul]]
  /\ sret' = 1
  /\ taken' = None /\ UNCHANGED <<sflags, halted>>

\* (mutant: the length stays when the new string is shorter)
SetKeepsLen(o, s) ==
  /\ ~halted /\ Dup(o)
  /\ smem' = [smem EXCEPT ![o] =
                Copied(IF Len(s) <= slen[o] THEN @ ELSE Resized(@, Len(s) + 1), 0, Append(s, Nul))]
  /\ slen' = [slen EXCEPT ![o] = Larger(@, Len(s))]
  /\ sret' = 1
  /\ taken' = None /\ UNCHANGED <<sflags, halted>>

\* a string that is not longer is copied over the old one, whose memory stays
coStrSet(o, s) ==
  /\ ~halted /\ Dup(o)
  /\ smem' = [smem EXCEPT ![o] =
                Copied(IF Len(s) <= slen[o] THEN @ ELSE Resized(@, Len(s) + 1), 0, Append(s, Nul))]
  /\ slen' = [slen EXCEPT ![o] = Len(s)]
  /\ sret' = 1
  /\ taken' = None /\ UNCHANGED <<sflags, halted>>

\* only a longer string needs memory
coStrSetFails(o, s) ==
  /\ ~halted /\ Exists(o)
  /\ ~Dup(o) \/ (Oom /\ Len(s) > slen[o])
  /\ Unchanged0(o)

\* coNewStr with the flags of the object and both of the string
coStrClone(o, n) ==
  /\ Exists(o)
  /\ coNewStr(n, TextOf(smem[o], StrLen(smem[o])), sflags[o] \cup {"CO_STRDUP", "CO_STRFREE"})

coStrDestroy(o) ==
  /\ ~halted /\ Exists(o)
  /\ Made(o, None, <<>>, 0)
  /\ taken' = None /\ UNCHANGED <<sret, halted>>

\* the bytes of the object, or a copy of those that are not its own; NULL when there
\* is no memory for the copy
coStrDeleteAndGetAllocatedStringContent(o) ==
  /\ ~halted /\ Exists(o)
  /\ \/ taken' = TextOf(smem[o], StrLen(smem[o]))
     \/ Oom /\ "CO_STRFREE" \notin sflags[o] /\ taken' = None
  /\ Made(o, None, <<>>, 0)
  /\ UNCHANGED <<sret, halted>>

StrInit ==
  /\ sflags = [o \in StrObj |-> None]
  /\ smem = [o \in StrObj |-> <<>>]
  /\ slen = [o \in StrObj |-> 0]
  /\ sret = 1 /\ taken = None /\ halted = FALSE

StrNext ==
  \E o \in StrObj :
    \/ \E s \in Strings, flags \in SUBSET {"CO_STRDUP", "CO_STRFREE"} : coNewStr(o, s, flags)
    \/ \E flags \in SUBSET {"CO_STRDUP", "CO_STRFREE"} : coNewStrFails(o, flags)
    \/ \E s \in Strings :
         \/ coNewStrWithLen(o, s) \/ coStrAdd(o, s) \/ coStrAddWithLen(o, s)
         \/ coStrSet(o, s) \/ coStrSetFails(o, s)
    \/ AddFailsOrNotDup(o)
    \/ \E n \in StrObj : coStrClone(o, n)
    \/ coStrDestroy(o)
    \/ coStrDeleteAndGetAllocatedStringContent(o)

StrSpec == StrInit /\ [][StrNext]_strVars

-----------------------------------------------------------------------------
(* Properties *)

\* The length is where the terminator is, inside of the memory, and no byte before it
\* is one: functions that use strlen and those that use the length agree, and strcpy
\* writes inside.
LenIsStrLen(o) ==
  /\ slen[o] \in DOMAIN smem[o] /\ smem[o][slen[o]] = Nul
  /\ \A j \in 0 .. slen[o] - 1 : smem[o][j] \in Byte

\* A string object is the text that was put into it, also after an error and when a
\* shorter one was written over a longer one.  A string whose length is not where its
\* terminator is has no text of the abstract specification.
Text == INSTANCE CoText
  WITH text <- [o \in StrObj |-> IF ~Exists(o) THEN None
                                 ELSE IF LenIsStrLen(o) THEN TextOf(smem[o], slen[o])
                                 ELSE <<Junk>>]
IsText == Text!Spec
=============================================================================
