-------------------------------- MODULE MCBoot --------------------------------
(***************************************************************************)
(* Boot on a small instance: motions that stay in place, that go left,     *)
(* right, down, past the top and further than a char reaches, with and     *)
(* without movement bytes that look like a first byte.                     *)
(***************************************************************************)
EXTENDS Boot

MCMotions == {<<1, 0>>, <<-1, 13>>, <<200, -3>>}
===============================================================================
