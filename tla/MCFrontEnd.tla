------------------------------ MODULE MCFrontEnd ------------------------------
(***************************************************************************)
(* Instances of the front end for TLC.                                     *)
(***************************************************************************)
EXTENDS FrontEnd

CONSTANTS c1, c2

(* The kinds of the two calls, which stream, which clients leave, pauses;  *)
(* memory may run out.                                                     *)
Load(first, second, streaming, leaving, pause_modes, tokens) ==
  [kind |-> [c \in Calls |-> IF c = c1 THEN first ELSE second],
   stream |-> streaming, leaves |-> leaving, modes |-> pause_modes,
   max_new_tokens |-> tokens, tight |-> TRUE]

Roomy(load) == [load EXCEPT !.tight = FALSE]

Mixed == {Load("parallel", "absent", {}, {c1}, {"abort"}, 1),
          Load("parallel", "absent", {}, {c1}, {}, 2),
          Roomy(Load("parallel", "absent", {c1}, {c1}, {}, 2)),
          Roomy(Load("parallel", "text", {c2}, {}, {}, 2)),
          Load("text", "multimodal", {c1}, {c1}, {"abort"}, 1),
          Load("text", "multimodal", {c1}, {}, {"abort"}, 2),
          Load("multimodal", "text", {c1}, {c2}, {"retract"}, 2),
          Load("multimodal", "absent", {}, {c1}, {"abort"}, 3),
          Load("text", "absent", {c1}, {c1}, {"in_place", "retract"}, 4)}

Stream == {Load("text", "absent", {c1}, {}, {}, 3)}

EveryToken == 1..4
EveryOther == {2, 4}
==============================================================================
