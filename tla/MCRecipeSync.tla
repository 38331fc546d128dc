---------------------------- MODULE MCRecipeSync ----------------------------
(* Small instances of RecipeSync for TLC. *)
EXTENDS RecipeSync

CONSTANTS h1, h2, p1, p2
=============================================================================
