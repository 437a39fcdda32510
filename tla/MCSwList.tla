------------------------------- MODULE MCSwList -------------------------------
(* CoSwList with short command lines. *)
EXTENDS CoSwList

Options == [opt : {"-a2l"}, file : {"a", "b", "missing"}]
           \cup [opt : {"-s19"}, file : {"s", "t", "missing"}]

\* up to four options, and three pairs with more options than fit
SomeLines ==
  UNION {[1 .. n -> Options] : n \in 0 .. 3}
  \cup {<<[opt |-> "-a2l", file |-> "a"], [opt |-> "-s19", file |-> "s"],
          [opt |-> "-a2l", file |-> "b"], o, p>> : o, p \in Options}
=============================================================================
