----------------------------- MODULE MCSaveFile -----------------------------
(* Model-checking instance of SaveFile: a small file and a big one, which  *)
(* share blocks and both contain a block twice. The big one takes two      *)
(* buffers, the second one incomplete.                                     *)
EXTENDS SaveFile

CONSTANTS small, big, h1, h2

MCContent == small :> <<h1, h2, h1>> @@ big :> <<h2, h2, h1>>
=============================================================================
