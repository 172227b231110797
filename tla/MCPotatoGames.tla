---------------------------- MODULE MCPotatoGames ----------------------------
(* Five players that pass to the left; potatoes that explode after one to  *)
(* seven plays.                                                            *)
EXTENDS PotatoGames

Left5  == <<5, -1, 3>>

Values == {1, 2, 3, 5}

=============================================================================
