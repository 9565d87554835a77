----------------------------- MODULE MCUserMode -----------------------------
(* UserMode with as many slots as start-up images: slots are free until the *)
(* images are loaded and again after an exit, so choose_next also skips.    *)
EXTENDS UserMode
=============================================================================
