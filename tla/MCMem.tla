-------------------------------- MODULE MCMem --------------------------------
(* Bytes in memory: memory blocks and string objects (CoMem and CoStr), each   *)
(* alone, with byte strings of up to three bytes, and the blocks that files of *)
(* records become (CoMemoryImage).                                             *)
EXTENDS CoStr, CoMemoryImage

Short == {<<>>} \cup {<<p>> : p \in Byte}
                \cup {s \in [1 .. 3 -> Byte] : s[1] # s[2] /\ s[2] = s[3]}

ShortTexts == {<<>>} \cup {<<p>> : p \in Byte} \cup {<<p, p>> : p \in Byte}

VARIABLE part  \* which of the three the behaviour is about

allVars == <<vars, strVars, all, part>>

\* the others wait in one of their initial states
BytesInit ==
  /\ Init /\ StrInit /\ ImageInit
  /\ part \in {"mem", "str", "image"}
  /\ part # "image" => format = "S19"

BytesNext ==
  /\ UNCHANGED part
  /\ \/ part = "mem" /\ Next /\ UNCHANGED <<strVars, all>>
     \/ part = "str" /\ StrNext /\ UNCHANGED <<vars, all>>
     \/ part = "image" /\ ImageNext /\ UNCHANGED <<vars, strVars>>

\* (see ImageSpec of CoMemoryImage)
BytesSpec == BytesInit /\ [][BytesNext]_allVars /\ WF_all(Lookup)
=============================================================================
