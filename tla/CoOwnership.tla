----------------------------- MODULE CoOwnership -----------------------------
(***************************************************************************)
(* What co/co.h promises about the ownership of objects, without saying    *)
(* how: "objects assigned to containers are moved", "objects taken out of  *)
(* a container are read only", and a container is deleted together with    *)
(* what was moved into it.  Every object has one owner at any time.        *)
(***************************************************************************)
CONSTANTS
  Obj,     \* the objects
  Nobody,  \* owner of an object that does not exist
  Local,   \* a variable of the application, or of a running library function
  Lost     \* owner of an object that nothing will delete

VARIABLE owner  \* owner[o]: Nobody, Local, Lost or the container o was moved to

Owner == Obj \cup {Nobody, Local, Lost}

Init == owner = [o \in Obj |-> Nobody]

\* The owners o may have after a step.  An object is moved only while a local
\* variable owns it: no container hands an element to another owner.
Passes(o) ==
  CASE owner[o] = Nobody -> Owner                  \* created
    [] owner[o] = Local  -> Owner                  \* moved, deleted or dropped
    [] owner[o] = Lost   -> {Lost}
    [] owner[o] \in Obj  -> {owner[o], Nobody}     \* deleted with its container

\* Whatever is owned has an existing owner, so that a container dies with the
\* objects moved into it, and nothing contains itself.
Next ==
  /\ owner' \in [Obj -> Owner]
  /\ \A o \in Obj : /\ owner'[o] \in Passes(o)
                    /\ owner'[o] \in Obj => /\ owner'[owner'[o]] # Nobody
                                            /\ owner'[o] # o

Spec == Init /\ [][Next]_owner
=============================================================================
